---- MODULE Spec2Model ----
(***************************************************************************)
(* Email Validator: the validation pipeline (src/server/validators/        *)
(* email.js), the provider policy resolver and retry controller            *)
(* (src/server/validators/providers.js) and the bulk route                 *)
(* (src/server/routes/validation.js).                                      *)
(*                                                                         *)
(* Strings that the code inspects character by character (addresses and    *)
(* domains) are sequences of one-character strings.                        *)
(***************************************************************************)
EXTENDS Integers, Sequences, FiniteSets, TLC

VARIABLES
    \* ---- one validateEmail call (email.js) and the calls below it ----
    pc,          \* position of the validateEmail call
    email,       \* the argument: [str |-> is it a JS string, chars |-> its characters]
    result,      \* the result object built by validateEmail
    mxRecords,   \* local mxRecords of validateEmail (FALSE or the sorted list)
    mxIdx,       \* index of the for..of loop over mxRecords
    lastError,   \* local lastError of validateEmail
    config,      \* providerConfig
    attempt,     \* loop counter of performSMTPCheck
    ctlError,    \* local lastError of performSMTPCheck
    ctlReturn,   \* value returned by the last performSMTPCheck call
    lastProbe,   \* outcome of the last verifyMailbox call
    net,         \* network operations started so far, by kind, and (open)
                 \* whether a socket opened for this call is not closed
    probeLog,    \* hosts handed to verifyMailbox, in call order
    attemptLog,  \* per attempt of the running performSMTPCheck call: did
                 \* verifyMailbox return a reply code ("reply") or not ("none")
    world,       \* what the resolver and the mail servers answer during the
                 \* call, when that is fixed in advance (fixed = TRUE)
    \* ---- one POST /validate/bulk request (validation.js) ----
    bpc,            \* position of the route handler
    records,        \* the records of the uploaded file, in order
    totalRecords,   \* first-pass count
    readPos,        \* records delivered by the second-pass parser so far
    paused,         \* parser.pause() is in effect
    currentChunk,   \* currentChunk
    processedCount, \* processedCount
    inflight,       \* the group the 'data' handler is validating:
                    \* [recs, results, from] or NoGroup
    endGroup,       \* the group the 'end' handler is validating, or NoGroup
    events,         \* events written to the response, in order
    ended,          \* res.end() has been called
    validations,    \* number of validateEmail calls made by the batch
    srcFailed,      \* a parser of the request has emitted 'error'
    \* ---- one getProviderConfig call (providers.js 55-83) ----
    ppc,         \* position of the call
    argDomain,   \* its argument: the domain
    policy,      \* the object it returned
    \* ---- one verifyMailbox call (smtp.js: src/unnamed/part_001) ----
    spc,          \* position of the call
    pcfg,         \* its config argument
    heloIdx,      \* index of the loop over heloHosts
    fromIdx,      \* index of the loop over fromAddresses
    socket,       \* client.socket: [exists, destroyed, secure, quit]
    dialog,       \* the steps of the exchange so far, each with how it settled
    supportsTLS,  \* supportsTLS
    ehloResponse, \* ehloResponse
    outcome,      \* how the try block was left: the RCPT TO reply or the error
    pret,         \* the object verifyMailbox returned
    \* ---- consecutive command() calls on one socket (smtp.js 40-83) ----
    wpc,          \* "ready": the caller is about to call command();
                  \* "waiting": a command() promise is pending
    cmdNo,        \* number of command() calls made so far
    response,     \* local response of the pending command()
    respFrom,     \* the commands whose replies have bytes in response
    wire,         \* chunks sent by the server and not yet delivered
    served,       \* per command, the reply text the server answers it with
    replied       \* how the command() calls settled, in order

valVars == <<pc, email, result, mxRecords, mxIdx, lastError, config, attempt,
             ctlError, ctlReturn, lastProbe, net, probeLog, attemptLog, world>>

batchVars == <<bpc, records, totalRecords, readPos, paused, currentChunk,
               processedCount, inflight, endGroup, events, ended, validations,
               srcFailed>>

polVars == <<ppc, argDomain, policy>>

probeVars == <<spc, pcfg, heloIdx, fromIdx, socket, dialog, supportsTLS,
               ehloResponse, outcome, pret>>

wireVars == <<wpc, cmdNo, response, respFrom, wire, served, replied>>

\* The variables of the calls that are followed on their own
extVars == <<polVars, probeVars, wireVars>>

vars == <<valVars, batchVars, extVars>>

-----------------------------------------------------------------------------
(* Characters and strings                                                  *)

LowerSeq == <<"a","b","c","d","e","f","g","h","i","j","k","l","m",
              "n","o","p","q","r","s","t","u","v","w","x","y","z">>

UpperSeq == <<"A","B","C","D","E","F","G","H","I","J","K","L","M",
              "N","O","P","Q","R","S","T","U","V","W","X","Y","Z">>

Lower == {LowerSeq[i] : i \in DOMAIN LowerSeq}

Upper == {UpperSeq[i] : i \in DOMAIN UpperSeq}

Digit == {"0","1","2","3","4","5","6","7","8","9"}

Alpha == Lower \cup Upper

AlNum == Alpha \cup Digit

\* s.split(sep) for a one-character separator: the parts between separators.
RECURSIVE Split(_, _)
Split(s, sep) ==
    IF \A i \in DOMAIN s : s[i] # sep
    THEN <<s>>
    ELSE LET p == CHOOSE i \in DOMAIN s :
                      s[i] = sep /\ \A j \in 1..(i - 1) : s[j] # sep
         IN  <<SubSeq(s, 1, p - 1)>> \o Split(SubSeq(s, p + 1, Len(s)), sep)

\* hay.includes(needle)
Includes(hay, needle) ==
    \E i \in 0..(Len(hay) - Len(needle)) :
        SubSeq(hay, i + 1, i + Len(needle)) = needle

\* String.prototype.toLowerCase on the ASCII letters
ToLowerCase(s) ==
    [i \in DOMAIN s |->
        IF s[i] \in Upper
        THEN LowerSeq[CHOOSE k \in DOMAIN UpperSeq : UpperSeq[k] = s[i]]
        ELSE s[i]]

\* n copies of the character c
Rep(c, n) == [i \in 1..n |-> c]

-----------------------------------------------------------------------------
(* validateEmailFormat (email.js 8-12)                                     *)

\* {0,61} in the local part of emailRegex
LocalMiddleMax == 61

\* [a-zA-Z0-9._%+-]
LocalChars == AlNum \cup {".", "_", "%", "+", "-"}

\* [a-zA-Z0-9](?:[a-zA-Z0-9._%+-]{0,61}[a-zA-Z0-9])?
MatchLocal(l) ==
    /\ Len(l) >= 1
    /\ l[1] \in AlNum
    /\ Len(l) >= 2 =>
          /\ l[Len(l)] \in AlNum
          /\ Len(l) - 2 <= LocalMiddleMax
          /\ \A i \in 2..(Len(l) - 1) : l[i] \in LocalChars

\* [a-zA-Z0-9](?:[a-zA-Z0-9-]*[a-zA-Z0-9])?(?:\.[a-zA-Z]{2,})+
\* The first label holds no dot, every later label is letters only, so the
\* labels are the parts between the dots.
MatchDomain(d) ==
    LET labels == Split(d, ".")
        first  == labels[1]
    IN  /\ Len(labels) >= 2
        /\ Len(first) >= 1
        /\ first[1] \in AlNum
        /\ first[Len(first)] \in AlNum
        /\ \A i \in DOMAIN first : first[i] \in AlNum \cup {"-"}
        /\ \A k \in 2..Len(labels) :
              /\ Len(labels[k]) >= 2
              /\ \A i \in DOMAIN labels[k] : labels[k][i] \in Alpha

\* emailRegex.test(s): neither side of the regex admits "@", so a match has
\* exactly one "@".
EmailRegexTest(s) ==
    LET parts == Split(s, "@")
    IN  /\ Len(parts) = 2
        /\ MatchLocal(parts[1])
        /\ MatchDomain(parts[2])

validateEmailFormat(e) ==
    IF ~e.str \/ e.chars = <<>> THEN FALSE ELSE EmailRegexTest(e.chars)

-----------------------------------------------------------------------------
(* PROVIDERS and getProviderConfig (providers.js 4-83)                     *)

D_gmail       == <<"g","m","a","i","l",".","c","o","m">>
D_googlemail  == <<"g","o","o","g","l","e","m","a","i","l",".","c","o","m">>
D_google      == <<"g","o","o","g","l","e",".","c","o","m">>
D_outlook     == <<"o","u","t","l","o","o","k",".","c","o","m">>
D_hotmail     == <<"h","o","t","m","a","i","l",".","c","o","m">>
D_live        == <<"l","i","v","e",".","c","o","m">>
D_msn         == <<"m","s","n",".","c","o","m">>
D_microsoft   == <<"m","i","c","r","o","s","o","f","t",".","c","o","m">>
D_yahoo       == <<"y","a","h","o","o",".","c","o","m">>
D_ymail       == <<"y","m","a","i","l",".","c","o","m">>
D_yahoodns    == <<"y","a","h","o","o","d","n","s",".","n","e","t">>

\* Object.entries(PROVIDERS), in insertion order. A provider entry has no
\* tempCodes property: hasTempCodes is FALSE and tempCodes is empty.
PROVIDERS ==
    << [provider |-> "gmail.com",
        domains |-> <<D_gmail, D_googlemail>>,
        mxDomains |-> <<D_google, D_googlemail, D_gmail>>,
        reliable |-> TRUE, heloHost |-> "gmail-smtp-in.l.google.com",
        requireTLS |-> TRUE, timeout |-> 15000,
        acceptCodes |-> {250}, rejectCodes |-> {550, 551, 552, 553, 554},
        hasTempCodes |-> FALSE, tempCodes |-> {},
        retryAttempts |-> 2,
        fromAddresses |-> <<"postmaster@gmail.com", "verify@gmail.com">>],
       [provider |-> "outlook.com",
        domains |-> <<D_outlook, D_hotmail, D_live, D_msn>>,
        mxDomains |-> <<D_outlook, D_hotmail, D_microsoft>>,
        reliable |-> TRUE, heloHost |-> "outlook-com.olc.protection.outlook.com",
        requireTLS |-> TRUE, timeout |-> 20000,
        acceptCodes |-> {250}, rejectCodes |-> {550, 551, 552, 553, 554},
        hasTempCodes |-> FALSE, tempCodes |-> {},
        retryAttempts |-> 3,
        fromAddresses |-> <<"postmaster@outlook.com", "verify@outlook.com">>],
       [provider |-> "yahoo.com",
        domains |-> <<D_yahoo, D_ymail>>,
        mxDomains |-> <<D_yahoo, D_yahoodns>>,
        reliable |-> TRUE, heloHost |-> "mta7.am0.yahoodns.net",
        requireTLS |-> TRUE, timeout |-> 12000,
        acceptCodes |-> {250}, rejectCodes |-> {550, 551, 552, 553, 554},
        hasTempCodes |-> FALSE, tempCodes |-> {},
        retryAttempts |-> 2,
        fromAddresses |-> <<"postmaster@yahoo.com", "verify@yahoo.com">>] >>

\* The object literal returned at providers.js 73-82 (no provider, heloHost
\* or fromAddresses property).
GenericConfig ==
    [provider |-> "generic",
     reliable |-> FALSE, heloHost |-> "",
     requireTLS |-> FALSE, timeout |-> 10000,
     acceptCodes |-> {250, 251}, rejectCodes |-> {550, 551, 553, 554},
     hasTempCodes |-> TRUE, tempCodes |-> {450, 451, 452},
     retryAttempts |-> 2,
     fromAddresses |-> <<>>]

\* { ...config, provider }
ConfigOf(p) ==
    [provider |-> p.provider,
     reliable |-> p.reliable, heloHost |-> p.heloHost,
     requireTLS |-> p.requireTLS, timeout |-> p.timeout,
     acceptCodes |-> p.acceptCodes, rejectCodes |-> p.rejectCodes,
     hasTempCodes |-> p.hasTempCodes, tempCodes |-> p.tempCodes,
     retryAttempts |-> p.retryAttempts,
     fromAddresses |-> p.fromAddresses]

InSeq(x, s) == \E i \in DOMAIN s : s[i] = x

\* (mutation of getProviderConfig: the loop over the MX patterns is missing)
getProviderConfig_NoPatterns(d) ==
    LET lowerDomain == ToLowerCase(d)
        exact == {i \in DOMAIN PROVIDERS : InSeq(lowerDomain, PROVIDERS[i].domains)}
        First(S) == CHOOSE i \in S : \A j \in S : i <= j
    IN  IF exact # {} THEN ConfigOf(PROVIDERS[First(exact)])
        ELSE GenericConfig

getProviderConfig(domain) ==
    LET lowerDomain == ToLowerCase(domain)
        exact == {i \in DOMAIN PROVIDERS : InSeq(lowerDomain, PROVIDERS[i].domains)}
        byMx  == {i \in DOMAIN PROVIDERS :
                     \E k \in DOMAIN PROVIDERS[i].mxDomains :
                         Includes(lowerDomain, PROVIDERS[i].mxDomains[k])}
        First(S) == CHOOSE i \in S : \A j \in S : i <= j
    IN  IF exact # {} THEN ConfigOf(PROVIDERS[First(exact)])
        ELSE IF byMx # {} THEN ConfigOf(PROVIDERS[First(byMx)])
        ELSE GenericConfig

-----------------------------------------------------------------------------
(* Inputs and environment of one validateEmail call                        *)

\* Largest number of MX records a lookup answers with in the model
MaxMx == 2

\* email.js 83
MaxLocalLen == 64

\* email.js 88
MaxDomainLen == 255

Str(chars) == [str |-> TRUE, chars |-> chars]

\* A value that is not a string (null, a number, an object): it has no characters.
NonString == [str |-> FALSE, chars |-> <<>>]

E_gmail    == Str(<<"u","@","g","m","a","i","l",".","c","o","m">>)
E_generic  == Str(<<"u","_","x","@","m","y","-","e","x",".","c","o",".","u","k">>)
E_hotmail  == Str(<<"j","@","H","o","t","m","a","i","l",".","C","O","M">>)
E_noAt     == Str(<<"b","a","d","-","f","o","r","m","a","t">>)
E_shortTld == Str(<<"u","@","e","x",".","i">>)
E_leadDot  == Str(<<".","u","@","e","x",".","i","o">>)
E_twoAt    == Str(<<"u","@","@","e","x",".","i","o">>)
E_space    == Str(<<"a"," ","b","@","e","x",".","i","o">>)
E_digitLbl == Str(<<"u","@","s","u","b",".","e","x","1",".","i","o">>)
E_empty    == Str(<<>>)
\* a local part of 64 characters (the regex admits at most 63)
E_local64  == Str(Rep("a", MaxLocalLen) \o <<"@","e","x",".","i","o">>)
\* a domain of 256 characters that the regex admits
E_domain256 == Str(<<"u","@">> \o Rep("a", MaxDomainLen - 3) \o <<".","c","o","m">>)

Emails == {NonString, E_gmail, E_generic, E_hotmail, E_noAt, E_shortTld,
           E_leadDot, E_twoAt, E_space, E_digitLbl, E_empty, E_local64,
           E_domain256}

\* const [localPart, domain] = email.split('@')
LocalPartOf(e) == Split(e.chars, "@")[1]

DomainOf(e) == Split(e.chars, "@")[2]

HostNames == <<"mx-a", "mx-b", "mx-c", "mx-d">>

Priorities == {10, 20}

\* What resolveMx answers: the records in the resolver's order (any order of
\* priorities), the i-th naming the i-th host.
MxLists ==
    UNION {{[i \in 1..n |-> [exchange |-> HostNames[i], priority |-> f[i]]]
               : f \in [1..n -> Priorities]} : n \in 0..MaxMx}

MxOutcomes ==
    {[kind |-> "error", recs |-> <<>>]} \cup
    {[kind |-> "records", recs |-> l] : l \in MxLists}

T_spfAll == <<"v","=","s","p","f","1"," ","-","a","l","l">>
T_spfMx  == <<"v","=","s","p","f","1"," ","m","x">>
T_other  == <<"s","i","t","e","-","v","e","r","i","f","y">>
T_spf2   == <<"s","p","f","2",".","0">>
SpfPrefix == <<"v","=","s","p","f","1">>

\* What resolveTxt answers: one array of chunks per TXT record.
TxtLists == { <<>>,
              << <<T_other>>, <<T_spf2>> >>,
              << <<T_spf2>>, <<T_other, T_spfAll>>, <<T_spfMx>> >> }

TxtOutcomes ==
    {[kind |-> "error", txt |-> <<>>]} \cup
    {[kind |-> "records", txt |-> l] : l \in TxtLists}

\* How the preliminary connection of an attempt ends (providers.js 92-110)
PrecheckOutcomes == {"connected", "timeout", "error"}

\* RCPT TO reply codes the servers of the model answer with
ReplyCodes == {250, 251, 450, 550, 552, 421}

ProbeErrors == {"Response timeout", "Required TLS connection failed"}

\* How a verifyMailbox call ends: with the RCPT TO reply, or with an error
\* raised on the way (connect, greeting, HELO/EHLO, TLS, MAIL FROM, timeout).
ProbeRuns ==
    {[kind |-> "reply", code |-> c, tls |-> t, error |-> ""]
        : c \in ReplyCodes, t \in BOOLEAN} \cup
    {[kind |-> "error", code |-> 0, tls |-> FALSE, error |-> e]
        : e \in ProbeErrors}

NoValue == [none |-> TRUE]

\* Nothing is fixed in advance.
FreeWorld == [fixed |-> FALSE]

\* The servers of a domain: down, or up and answering every RCPT TO with rcpt
SmtpWorlds ==
    {[up |-> FALSE, rcpt |-> r] : r \in {421}} \cup
    {[up |-> TRUE, rcpt |-> r] : r \in ReplyCodes}

\* The domain's A, AAAA and CNAME lookups succeed or fail, its MX and TXT
\* lookups answer mx and txt, and its mail servers either refuse every
\* connection (up = FALSE) or answer every RCPT TO with rcpt.
FixedWorlds ==
    {[fixed |-> TRUE, a |-> a, aaaa |-> b, cname |-> c, mx |-> m, txt |-> t,
      smtp |-> sm]
        : a \in BOOLEAN, b \in BOOLEAN, c \in BOOLEAN,
          m \in MxOutcomes, t \in TxtOutcomes, sm \in SmtpWorlds}

-----------------------------------------------------------------------------
(* Helpers of validateEmail (email.js 14-52)                               *)

\* (mutation of checkDNS: only the A lookup counts)
checkDNS_OnlyA(a, aaaa, cname) == a

\* (mutation of checkDNS: every lookup has to succeed)
checkDNS_All(a, aaaa, cname) == a /\ aaaa /\ cname

\* Promise.allSettled over the A, AAAA and CNAME lookups, some fulfilled
checkDNS(a, aaaa, cname) == a \/ aaaa \/ cname

\* (mutation of SortByPriority: the records stay in the resolver's order)
SortByPriority_Unsorted(s) == s

\* Array.prototype.sort((a, b) => a.priority - b.priority): stable
RECURSIVE SortByPriority(_)
SortByPriority(s) ==
    IF Len(s) <= 1 THEN s
    ELSE LET head == SortByPriority(SubSeq(s, 1, Len(s) - 1))
             x    == s[Len(s)]
             k    == Cardinality({i \in DOMAIN head : head[i].priority <= x.priority})
         IN  SubSeq(head, 1, k) \o <<x>> \o SubSeq(head, k + 1, Len(head))

\* (mutation of checkMX: the length test of line 31 is missing, an empty
\* array is returned and is truthy)
checkMX_NoEmptyCheck(o) ==
    IF o.kind = "error" THEN [threw |-> FALSE, found |-> FALSE, val |-> <<>>]
    ELSE [threw |-> FALSE, found |-> TRUE, val |-> SortByPriority(o.recs)]

\* checkMX: threw tells whether an exception leaves the helper; found is
\* FALSE when it returns false, and val is the returned list otherwise.
checkMX(o) ==
    IF o.kind = "error" THEN [threw |-> FALSE, found |-> FALSE, val |-> <<>>]
    ELSE IF Len(o.recs) = 0 THEN [threw |-> FALSE, found |-> FALSE, val |-> <<>>]
    ELSE [threw |-> FALSE, found |-> TRUE, val |-> SortByPriority(o.recs)]

StartsWith(s, prefix) ==
    Len(s) >= Len(prefix) /\ SubSeq(s, 1, Len(prefix)) = prefix

RECURSIVE Flat(_)
Flat(ss) == IF ss = <<>> THEN <<>> ELSE Head(ss) \o Flat(Tail(ss))

\* (mutation of checkSPF: no try/catch, a failed TXT lookup propagates)
checkSPF_NoCatch(o) ==
    IF o.kind = "error"
    THEN [threw |-> TRUE, exists |-> FALSE, record |-> <<>>]
    ELSE LET flat == Flat(o.txt)
             hits == {i \in DOMAIN flat : StartsWith(flat[i], SpfPrefix)}
         IN  IF hits = {}
             THEN [threw |-> FALSE, exists |-> FALSE, record |-> <<>>]
             ELSE [threw |-> FALSE, exists |-> TRUE,
                   record |-> flat[CHOOSE i \in hits : \A j \in hits : i <= j]]

\* checkSPF: exists/record of the first flattened entry starting with v=spf1
checkSPF(o) ==
    IF o.kind = "error"
    THEN [threw |-> FALSE, exists |-> FALSE, record |-> <<>>]
    ELSE LET flat == Flat(o.txt)
             hits == {i \in DOMAIN flat : StartsWith(flat[i], SpfPrefix)}
         IN  IF hits = {}
             THEN [threw |-> FALSE, exists |-> FALSE, record |-> <<>>]
             ELSE [threw |-> FALSE, exists |-> TRUE,
                   record |-> flat[CHOOSE i \in hits : \A j \in hits : i <= j]]

-----------------------------------------------------------------------------
(* verifyMailbox as performSMTPCheck sees it, and the classification of    *)
(* its outcome (providers.js 113-151)                                      *)

\* The object verifyMailbox returns for a run of the SMTP exchange
verifyMailbox(run) ==
    IF run.kind = "reply"
    THEN [success |-> TRUE, mailboxExists |-> (run.code = 250),
          supportsTLS |-> run.tls, code |-> run.code, message |-> "reply text"]
    ELSE [success |-> FALSE, mailboxExists |-> FALSE,
          supportsTLS |-> run.tls, error |-> run.error]

\* (mutation of Classify: the rejectCodes branch is missing)
Classify_NoReject(cfg, r) ==
    IF r.success /\ r.code \in cfg.acceptCodes
    THEN [returns |-> TRUE, lastError |-> "",
          value |-> [success |-> TRUE, mailboxExists |-> TRUE,
                     supportsTLS |-> r.supportsTLS, code |-> r.code,
                     message |-> r.message]]
    ELSE IF r.success /\ ~cfg.reliable /\ cfg.hasTempCodes /\ r.code \in cfg.tempCodes
    THEN [returns |-> TRUE, lastError |-> "",
          value |-> [success |-> TRUE, mailboxExists |-> TRUE,
                     supportsTLS |-> r.supportsTLS, code |-> r.code,
                     message |-> "Server employs protection measures",
                     protected |-> TRUE]]
    ELSE [returns |-> FALSE,
          lastError |-> IF ~r.success /\ r.error # "" THEN r.error
                        ELSE "Ambiguous server response",
          value |-> NoValue]

\* (mutation of Classify: the tempCodes branch is missing)
Classify_NoProtected(cfg, r) ==
    IF r.success /\ r.code \in cfg.acceptCodes
    THEN [returns |-> TRUE, lastError |-> "",
          value |-> [success |-> TRUE, mailboxExists |-> TRUE,
                     supportsTLS |-> r.supportsTLS, code |-> r.code,
                     message |-> r.message]]
    ELSE IF r.success /\ r.code \in cfg.rejectCodes
    THEN [returns |-> TRUE, lastError |-> "",
          value |-> [success |-> TRUE, mailboxExists |-> FALSE,
                     supportsTLS |-> r.supportsTLS, code |-> r.code,
                     message |-> r.message]]
    ELSE [returns |-> FALSE,
          lastError |-> IF ~r.success /\ r.error # "" THEN r.error
                        ELSE "Ambiguous server response",
          value |-> NoValue]

\* (mutation of Classify: the accept branch passes on the mailboxExists flag
\* of verifyMailbox)
Classify_UsesFlag(cfg, r) ==
    IF r.success /\ r.code \in cfg.acceptCodes
    THEN [returns |-> TRUE, lastError |-> "",
          value |-> [success |-> TRUE, mailboxExists |-> r.mailboxExists,
                     supportsTLS |-> r.supportsTLS, code |-> r.code,
                     message |-> r.message]]
    ELSE IF r.success /\ r.code \in cfg.rejectCodes
    THEN [returns |-> TRUE, lastError |-> "",
          value |-> [success |-> TRUE, mailboxExists |-> FALSE,
                     supportsTLS |-> r.supportsTLS, code |-> r.code,
                     message |-> r.message]]
    ELSE IF r.success /\ ~cfg.reliable /\ cfg.hasTempCodes /\ r.code \in cfg.tempCodes
    THEN [returns |-> TRUE, lastError |-> "",
          value |-> [success |-> TRUE, mailboxExists |-> TRUE,
                     supportsTLS |-> r.supportsTLS, code |-> r.code,
                     message |-> "Server employs protection measures",
                     protected |-> TRUE]]
    ELSE [returns |-> FALSE,
          lastError |-> IF ~r.success /\ r.error # "" THEN r.error
                        ELSE "Ambiguous server response",
          value |-> NoValue]

\* What one loop iteration does with the outcome r under policy cfg: return
\* a value (returns = TRUE) or record lastError and go on (returns = FALSE).
Classify(cfg, r) ==
    IF r.success /\ r.code \in cfg.acceptCodes
    THEN [returns |-> TRUE, lastError |-> "",
          value |-> [success |-> TRUE, mailboxExists |-> TRUE,
                     supportsTLS |-> r.supportsTLS, code |-> r.code,
                     message |-> r.message]]
    ELSE IF r.success /\ r.code \in cfg.rejectCodes
    THEN [returns |-> TRUE, lastError |-> "",
          value |-> [success |-> TRUE, mailboxExists |-> FALSE,
                     supportsTLS |-> r.supportsTLS, code |-> r.code,
                     message |-> r.message]]
    ELSE IF r.success /\ ~cfg.reliable /\ cfg.hasTempCodes /\ r.code \in cfg.tempCodes
    THEN [returns |-> TRUE, lastError |-> "",
          value |-> [success |-> TRUE, mailboxExists |-> TRUE,
                     supportsTLS |-> r.supportsTLS, code |-> r.code,
                     message |-> "Server employs protection measures",
                     protected |-> TRUE]]
    ELSE [returns |-> FALSE,
          lastError |-> IF ~r.success /\ r.error # "" THEN r.error
                        ELSE "Ambiguous server response",
          value |-> NoValue]

\* (mutation of Exhausted: the fallback message replaces lastError)
Exhausted_NoError(err) ==
    [success |-> FALSE, mailboxExists |-> FALSE,
     error |-> "Maximum retry attempts exceeded"]

\* The value returned after the loop (providers.js 160-164)
Exhausted(err) ==
    [success |-> FALSE, mailboxExists |-> FALSE,
     error |-> IF err # "" THEN err ELSE "Maximum retry attempts exceeded"]

\* (mutation of MoreAttempts: <= for <)
MoreAttempts_OneMore(cfg, n) == n <= cfg.retryAttempts

\* The loop condition of providers.js 89 after n iterations
MoreAttempts(cfg, n) == n < cfg.retryAttempts

\* error.message of a failed preliminary connection
PrecheckMessage(pre) ==
    IF pre = "timeout" THEN "Connection timeout" ELSE "connect ECONNREFUSED"

-----------------------------------------------------------------------------
(* validateEmail (email.js 54-162)                                         *)

InitResult(e) ==
    [email |-> e, valid |-> FALSE,
     checks |-> [format |-> FALSE, dns |-> FALSE, mx |-> FALSE,
                 spf |-> FALSE, smtp |-> FALSE, mailbox |-> FALSE],
     details |-> [mxRecords |-> <<>>, spfRecord |-> <<>>,
                  smtpResponse |-> NoValue],
     reason |-> ""]

\* (mutation of Verdict: the SPF check is part of the verdict)
Verdict_WithSpf(checks) ==
    checks.format /\ checks.dns /\ checks.mx /\ checks.spf /\ checks.mailbox

\* email.js 140-143
Verdict(checks) == checks.format /\ checks.dns /\ checks.mx /\ checks.mailbox

\* email.js 145-159
ReasonOf(valid, checks, err) ==
    IF valid THEN "Email verified successfully"
    ELSE IF ~checks.mailbox THEN "Mailbox does not exist"
    ELSE IF ~checks.smtp
         THEN "SMTP verification failed: " \o (IF err # "" THEN err ELSE "Unknown error")
    ELSE IF ~checks.mx THEN "No mail servers found for domain"
    ELSE IF ~checks.dns THEN "Domain does not exist"
    ELSE "One or more validation checks failed"

NoNet == [dns |-> 0, mx |-> 0, txt |-> 0, conn |-> 0, probe |-> 0, open |-> FALSE]

ValInit ==
    /\ pc = "start"
    /\ email \in Emails
    /\ result = InitResult(email)
    /\ mxRecords = <<>>
    /\ mxIdx = 0
    /\ lastError = ""
    /\ config = NoValue
    /\ attempt = 0
    /\ ctlError = ""
    /\ ctlReturn = NoValue
    /\ lastProbe = NoValue
    /\ net = NoNet
    /\ probeLog = <<>>
    /\ attemptLog = <<>>

\* (mutation of FormatCheck: the return of line 78 is missing)
FormatCheck_NoReturn ==
    /\ pc = "start"
    /\ IF ~validateEmailFormat(email)
       THEN /\ result' = [result EXCEPT !.checks.format = FALSE,
                                        !.reason = "Invalid email format"]
            /\ pc' = "dns"
       ELSE /\ result' = [result EXCEPT !.checks.format = TRUE]
            /\ pc' = "dns"
    /\ UNCHANGED <<email, mxRecords, mxIdx, lastError, config, attempt,
                   ctlError, ctlReturn, lastProbe, net, probeLog, attemptLog, world>>
    /\ UNCHANGED <<batchVars, extVars>>

\* Steps 1 and the length checks (email.js 74-91). split on a value that is
\* not a string, and .length of a missing second part, raise a TypeError.
FormatCheck ==
    /\ pc = "start"
    /\ IF ~validateEmailFormat(email)
       THEN /\ result' = [result EXCEPT !.checks.format = FALSE,
                                        !.reason = "Invalid email format"]
            /\ pc' = "done"
       ELSE IF ~email.str \/ Len(Split(email.chars, "@")) < 2
       THEN /\ result' = [result EXCEPT !.checks.format = TRUE]
            /\ pc' = "threw"
       ELSE IF Len(LocalPartOf(email)) > MaxLocalLen
       THEN /\ result' = [result EXCEPT !.checks.format = TRUE,
                                        !.reason = "Local part exceeds maximum length"]
            /\ pc' = "done"
       ELSE IF Len(DomainOf(email)) > MaxDomainLen
       THEN /\ result' = [result EXCEPT !.checks.format = TRUE,
                                        !.reason = "Domain exceeds maximum length"]
            /\ pc' = "done"
       ELSE /\ result' = [result EXCEPT !.checks.format = TRUE]
            /\ pc' = "dns"
    /\ UNCHANGED <<email, mxRecords, mxIdx, lastError, config, attempt,
                   ctlError, ctlReturn, lastProbe, net, probeLog, attemptLog, world>>
    /\ UNCHANGED <<batchVars, extVars>>

\* Step 2 (email.js 93-98): the three lookups are started together.
DnsCheck ==
    /\ pc = "dns"
    /\ \E a \in BOOLEAN, aaaa \in BOOLEAN, cname \in BOOLEAN :
          /\ world.fixed => (a = world.a /\ aaaa = world.aaaa /\ cname = world.cname)
          /\ net' = [net EXCEPT !.dns = @ + 3]
          /\ IF checkDNS(a, aaaa, cname)
             THEN /\ result' = [result EXCEPT !.checks.dns = TRUE]
                  /\ pc' = "mx"
             ELSE /\ result' = [result EXCEPT !.checks.dns = FALSE,
                                              !.reason = "Domain does not exist"]
                  /\ pc' = "done"
    /\ UNCHANGED <<email, mxRecords, mxIdx, lastError, config, attempt,
                   ctlError, ctlReturn, lastProbe, probeLog, attemptLog, world>>
    /\ UNCHANGED <<batchVars, extVars>>

\* (mutation of MxCheck: the return of line 104 is missing)
MxCheck_NoReturn ==
    /\ pc = "mx"
    /\ \E o \in MxOutcomes :
          LET r == checkMX(o)
          IN  /\ world.fixed => o = world.mx
              /\ net' = [net EXCEPT !.mx = @ + 1]
              /\ IF r.threw
                 THEN /\ pc' = "threw"
                      /\ UNCHANGED <<result, mxRecords>>
                 ELSE IF ~r.found
                 THEN /\ result' = [result EXCEPT
                              !.reason = "No mail servers found for domain"]
                      /\ mxRecords' = r.val
                      /\ pc' = "spf"
                 ELSE /\ result' = [result EXCEPT !.checks.mx = TRUE,
                                                  !.details.mxRecords = r.val]
                      /\ mxRecords' = r.val
                      /\ pc' = "spf"
    /\ UNCHANGED <<email, mxIdx, lastError, config, attempt,
                   ctlError, ctlReturn, lastProbe, probeLog, attemptLog, world>>
    /\ UNCHANGED <<batchVars, extVars>>

\* Step 3 (email.js 100-108)
MxCheck ==
    /\ pc = "mx"
    /\ \E o \in MxOutcomes :
          LET r == checkMX(o)
          IN  /\ world.fixed => o = world.mx
              /\ net' = [net EXCEPT !.mx = @ + 1]
              /\ IF r.threw
                 THEN /\ pc' = "threw"
                      /\ UNCHANGED <<result, mxRecords>>
                 ELSE IF ~r.found
                 THEN /\ result' = [result EXCEPT
                              !.reason = "No mail servers found for domain"]
                      /\ mxRecords' = r.val
                      /\ pc' = "done"
                 ELSE /\ result' = [result EXCEPT !.checks.mx = TRUE,
                                                  !.details.mxRecords = r.val]
                      /\ mxRecords' = r.val
                      /\ pc' = "spf"
    /\ UNCHANGED <<email, mxIdx, lastError, config, attempt,
                   ctlError, ctlReturn, lastProbe, probeLog, attemptLog, world>>
    /\ UNCHANGED <<batchVars, extVars>>

\* Step 4 and the start of step 5 (email.js 110-120): the SPF lookup, the
\* policy lookup and the entry into the loop over mxRecords.
SpfCheck ==
    /\ pc = "spf"
    /\ \E o \in TxtOutcomes :
          LET r == checkSPF(o)
          IN  /\ world.fixed => o = world.txt
              /\ net' = [net EXCEPT !.txt = @ + 1]
              /\ IF r.threw
                 THEN /\ pc' = "threw"
                      /\ UNCHANGED <<result, config, mxIdx, attempt, ctlError>>
                 ELSE /\ result' = [result EXCEPT !.checks.spf = r.exists,
                                                  !.details.spfRecord = r.record]
                      /\ config' = getProviderConfig(DomainOf(email))
                      /\ mxIdx' = 1
                      /\ attempt' = 0
                      /\ ctlError' = ""
                      /\ pc' = IF Len(mxRecords) > 0 THEN "smtp" ELSE "final"
    /\ UNCHANGED <<email, mxRecords, lastError, ctlReturn, lastProbe, probeLog,
                   attemptLog, world>>
    /\ UNCHANGED <<batchVars, extVars>>

-----------------------------------------------------------------------------
(* performSMTPCheck (providers.js 85-165), called for mxRecords[mxIdx]     *)

\* An attempt whose preliminary connection fails: the catch records the
\* message and, unless this was the last attempt, waits for the backoff.
\* The socket of lines 92-110 is destroyed by the callback that rejects.
PrecheckFails ==
    /\ pc = "smtp"
    /\ MoreAttempts(config, attempt)
    /\ world.fixed => ~world.smtp.up
    /\ \E pre \in PrecheckOutcomes \ {"connected"} :
          /\ net' = [net EXCEPT !.conn = @ + 1]
          /\ ctlError' = PrecheckMessage(pre)
          /\ IF attempt < config.retryAttempts - 1
             THEN pc' = "backoff" /\ attempt' = attempt
             ELSE pc' = "smtp" /\ attempt' = attempt + 1
    /\ attemptLog' = Append(attemptLog, "none")
    /\ UNCHANGED <<email, result, mxRecords, mxIdx, lastError, config,
                   ctlReturn, lastProbe, probeLog, world>>
    /\ UNCHANGED <<batchVars, extVars>>

\* The 1000 ms wait of the catch is over: next iteration.
Backoff ==
    /\ pc = "backoff"
    /\ pc' = "smtp"
    /\ attempt' = attempt + 1
    /\ UNCHANGED <<email, result, mxRecords, mxIdx, lastError, config,
                   ctlError, ctlReturn, lastProbe, net, probeLog, attemptLog, world>>
    /\ UNCHANGED <<batchVars, extVars>>

\* new net.Socket() (smtp.js 18)
NewSocket == [exists |-> TRUE, destroyed |-> FALSE, secure |-> FALSE, quit |-> FALSE]

\* How the statements of the try block of cleanup end (smtp.js 105-108)
CleanupOutcomes == {"ok", "write throws", "end throws"}

\* cleanup() (smtp.js 103-113): the socket afterwards. An exception of write or end
\* is caught and skips the statements after it.
cleanup(sock, o) ==
    IF sock.exists /\ ~sock.destroyed
    THEN CASE o = "ok"           -> [sock EXCEPT !.quit = TRUE, !.destroyed = TRUE]
           [] o = "write throws" -> sock
           [] o = "end throws"   -> [sock EXCEPT !.quit = TRUE]
    ELSE sock

\* The socket stays open after cleanup() ended as o (smtp.js 103-113)
LeftOpen(o) == ~cleanup(NewSocket, o).destroyed

\* An attempt whose preliminary connection succeeds: verifyMailbox is called
\* and its outcome classified. The socket of lines 92-110 is destroyed in the
\* connect callback, before verifyMailbox creates its own (smtp.js 18), which
\* the finally of verifyMailbox hands to cleanup(), ending as one of outs.
ProbeAttemptClosing(outs) ==
    /\ pc = "smtp"
    /\ MoreAttempts(config, attempt)
    /\ \E run \in ProbeRuns, o \in outs :
          LET r == verifyMailbox(run)
              c == Classify(config, r)
          IN  /\ world.fixed => /\ world.smtp.up
                                /\ run.kind = "reply"
                                /\ run.code = world.smtp.rcpt
              /\ attemptLog' = Append(attemptLog,
                                      IF r.success THEN "reply" ELSE "none")
              /\ net' = [net EXCEPT !.conn = @ + 1, !.probe = @ + 1,
                                    !.open = @ \/ LeftOpen(o)]
              /\ probeLog' = Append(probeLog, mxRecords[mxIdx].exchange)
              /\ lastProbe' = r
              /\ IF c.returns
                 THEN /\ ctlReturn' = c.value
                      /\ pc' = "ret"
                      /\ UNCHANGED <<attempt, ctlError>>
                 ELSE /\ ctlError' = c.lastError
                      /\ attempt' = attempt + 1
                      /\ pc' = "smtp"
                      /\ UNCHANGED ctlReturn
    /\ UNCHANGED <<email, result, mxRecords, mxIdx, lastError, config, world>>
    /\ UNCHANGED <<batchVars, extVars>>

\* The attempt where the sockets are not followed: what the call returns
\* does not depend on how cleanup() ends.
ProbeAttempt == ProbeAttemptClosing({"ok"})

\* The attempt with every ending of cleanup()
ProbeAttemptSockets == ProbeAttemptClosing(CleanupOutcomes)

\* The loop is over without a return.
AttemptsExhausted ==
    /\ pc = "smtp"
    /\ ~MoreAttempts(config, attempt)
    /\ ctlReturn' = Exhausted(ctlError)
    /\ pc' = "ret"
    /\ UNCHANGED <<email, result, mxRecords, mxIdx, lastError, config,
                   attempt, ctlError, lastProbe, net, probeLog, attemptLog, world>>
    /\ UNCHANGED <<batchVars, extVars>>

\* The body of the loop over mxRecords after the await (email.js 122-132);
\* the locals of the performSMTPCheck call that returned are gone.
HandleSmtpResult ==
    /\ pc = "ret"
    /\ lastProbe' = NoValue
    /\ IF ctlReturn.success
       THEN /\ result' = [result EXCEPT !.details.smtpResponse = ctlReturn,
                                        !.checks.smtp = TRUE,
                                        !.checks.mailbox = ctlReturn.mailboxExists]
            /\ pc' = "final"
            /\ UNCHANGED <<lastError, mxIdx, attempt, ctlError, attemptLog>>
       ELSE /\ result' = [result EXCEPT !.details.smtpResponse = ctlReturn]
            /\ lastError' = ctlReturn.error
            /\ IF mxIdx < Len(mxRecords)
               THEN /\ mxIdx' = mxIdx + 1
                    /\ attempt' = 0
                    /\ ctlError' = ""
                    /\ attemptLog' = <<>>
                    /\ pc' = "smtp"
               ELSE /\ pc' = "final"
                    /\ UNCHANGED <<mxIdx, attempt, ctlError, attemptLog>>
    /\ UNCHANGED <<email, mxRecords, config, ctlReturn, net, probeLog, world>>
    /\ UNCHANGED <<batchVars, extVars>>

\* The verdict and the reason (email.js 139-161)
Finish ==
    /\ pc = "final"
    /\ LET v == Verdict(result.checks)
       IN  result' = [result EXCEPT !.valid = v,
                                    !.reason = ReasonOf(v, result.checks, lastError)]
    /\ pc' = "done"
    /\ UNCHANGED <<email, mxRecords, mxIdx, lastError, config, attempt,
                   ctlError, ctlReturn, lastProbe, net, probeLog, attemptLog, world>>
    /\ UNCHANGED <<batchVars, extVars>>

ValNext ==
    \/ FormatCheck
    \/ DnsCheck
    \/ MxCheck
    \/ SpfCheck
    \/ PrecheckFails
    \/ Backoff
    \/ ProbeAttempt
    \/ AttemptsExhausted
    \/ HandleSmtpResult
    \/ Finish

\* validateEmail with the sockets of its attempts followed
SocketsNext ==
    \/ FormatCheck
    \/ DnsCheck
    \/ MxCheck
    \/ SpfCheck
    \/ PrecheckFails
    \/ Backoff
    \/ ProbeAttemptSockets
    \/ AttemptsExhausted
    \/ HandleSmtpResult
    \/ Finish

-----------------------------------------------------------------------------
(* POST /validate/bulk (validation.js 51-251)                              *)

\* validation.js 115
CHUNK_SIZE == 5

\* Largest number of records of an uploaded file in the model
MaxRecords == 11

\* A record either has no email/Email/EMAIL field, or has an address that
\* validateEmail will find valid, or one it will find invalid, or one for
\* which the awaited validateEmail call rejects.
KindSeq == <<"valid", "noemail", "invalid", "throws">>

\* The uploaded files: n records, their kinds cycling from a chosen start.
Files ==
    {[i \in 1..n |-> [id |-> i, kind |-> KindSeq[((i + s) % Len(KindSeq)) + 1]]]
        : n \in 0..MaxRecords, s \in 0..(Len(KindSeq) - 1)}

NoGroup == [active |-> FALSE, from |-> "none", recs |-> <<>>, results |-> <<>>]

Pending == [pending |-> TRUE]

AllFalse == [mx |-> FALSE, dns |-> FALSE, spf |-> FALSE,
             mailbox |-> FALSE, smtp |-> FALSE]

\* The fields processChunk adds to a record without an address (126-135)
NoEmailResult(rec) ==
    [id |-> rec.id, validation_result |-> "Invalid",
     validation_reason |-> "No email address found", checks |-> AllFalse]

\* The ValidationResult validateEmail resolves with for a record of the batch
BatchValidation(rec) ==
    IF rec.kind = "valid"
    THEN [valid |-> TRUE, reason |-> "Email verified successfully",
          checks |-> [mx |-> TRUE, dns |-> TRUE, spf |-> TRUE,
                      mailbox |-> TRUE, smtp |-> TRUE]]
    ELSE [valid |-> FALSE, reason |-> "Mailbox does not exist",
          checks |-> [mx |-> TRUE, dns |-> TRUE, spf |-> FALSE,
                      mailbox |-> FALSE, smtp |-> TRUE]]

\* The fields processChunk adds to a validated record (140-149)
ValidatedResult(rec, v) ==
    [id |-> rec.id,
     validation_result |-> IF v.valid THEN "Valid" ELSE "Invalid",
     validation_reason |-> IF v.reason # "" THEN v.reason
                           ELSE "Unknown validation status",
     checks |-> v.checks]

\* The fields processChunk adds to a record whose validation threw (151-160)
ThrownResult(rec) ==
    [id |-> rec.id, validation_result |-> "Invalid",
     validation_reason |-> "Processing error: " \o "lookup failed",
     checks |-> AllFalse]

\* What the callback of record rec returns once its validateEmail call has
\* settled (138-160)
SettledResult(rec) ==
    IF rec.kind = "throws" THEN ThrownResult(rec)
    ELSE ValidatedResult(rec, BatchValidation(rec))

\* (mutation of StartGroup: the test of line 125 is missing, validateEmail
\* is awaited for every record)
StartGroup_AllPending(recs, from) ==
    [active |-> TRUE, from |-> from, recs |-> recs,
     results |-> [i \in DOMAIN recs |-> Pending]]

\* processChunk(recs) is called: every record's callback runs up to its first
\* await; the records without an address are settled, the others wait for
\* validateEmail.
StartGroup(recs, from) ==
    [active |-> TRUE, from |-> from, recs |-> recs,
     results |-> [i \in DOMAIN recs |->
                     IF recs[i].kind = "noemail" THEN NoEmailResult(recs[i])
                     ELSE Pending]]

Started(recs) == Cardinality({i \in DOMAIN recs : recs[i].kind # "noemail"})

\* A percentage as an exact fraction
Pct(n, d) == [num |-> n, den |-> d]

\* (mutation of Emit: a write after res.end() still reaches the client)
Emit_AfterEnd(evs, e) == Append(evs, e)

\* res.write of one event; nothing reaches the client after res.end()
Emit(evs, e) == IF ended THEN evs ELSE Append(evs, e)

BatchInit ==
    /\ bpc = "count"
    /\ records \in Files
    /\ totalRecords = 0
    /\ readPos = 0
    /\ paused = FALSE
    /\ currentChunk = <<>>
    /\ processedCount = 0
    /\ inflight = NoGroup
    /\ endGroup = NoGroup
    /\ events = <<>>
    /\ ended = FALSE
    /\ validations = 0
    /\ srcFailed = FALSE

\* (mutation of FirstPassEnd: the test of line 94 is missing)
FirstPassEnd_NoEmptyTest ==
    /\ bpc = "count"
    /\ totalRecords' = Len(records)
    /\ events' = Emit(events, [type |-> "init", totalRecords |-> Len(records)])
    /\ ended' = ended
    /\ bpc' = "reading"
    /\ UNCHANGED <<records, readPos, paused, currentChunk, processedCount,
                   inflight, endGroup, validations, srcFailed>>
    /\ UNCHANGED <<valVars, extVars>>

\* The first pass ends (71-112): the count, then either the throw of line 95,
\* caught at 232-240, or the init event.
FirstPassEnd ==
    /\ bpc = "count"
    /\ totalRecords' = Len(records)
    /\ IF Len(records) = 0
       THEN /\ events' = Emit(events, [type |-> "error", error |-> "CSV file is empty"])
            /\ ended' = TRUE
            /\ bpc' = "failed"
       ELSE /\ events' = Emit(events, [type |-> "init", totalRecords |-> Len(records)])
            /\ ended' = ended
            /\ bpc' = "reading"
    /\ UNCHANGED <<records, readPos, paused, currentChunk, processedCount,
                   inflight, endGroup, validations, srcFailed>>
    /\ UNCHANGED <<valVars, extVars>>

\* The first-pass parser emits 'error' (90): rejected, caught at 232-240.
FirstPassError ==
    /\ bpc = "count"
    /\ events' = Emit(events, [type |-> "error", error |-> "parse error"])
    /\ ended' = TRUE
    /\ srcFailed' = TRUE
    /\ bpc' = "failed"
    /\ UNCHANGED <<records, totalRecords, readPos, paused, currentChunk,
                   processedCount, inflight, endGroup, validations>>
    /\ UNCHANGED <<valVars, extVars>>

\* The second-pass parser emits 'data' (177-181); a paused parser emits none.
\* A full chunk pauses the parser and starts its validation.
Data ==
    /\ bpc = "reading"
    /\ ~paused
    /\ readPos < Len(records)
    /\ readPos' = readPos + 1
    /\ currentChunk' = Append(currentChunk, records[readPos + 1])
    /\ IF Len(currentChunk') >= CHUNK_SIZE
       THEN /\ paused' = TRUE
            /\ inflight' = StartGroup(currentChunk', "data")
            /\ validations' = validations + Started(currentChunk')
       ELSE UNCHANGED <<paused, inflight, validations>>
    /\ UNCHANGED <<bpc, records, totalRecords, processedCount, endGroup, events,
                   ended, srcFailed>>
    /\ UNCHANGED <<valVars, extVars>>

\* One validateEmail call of a group in flight settles (138-160); the calls
\* settle in any order.
ValidationDone ==
    /\ \/ /\ inflight.active
          /\ \E i \in DOMAIN inflight.recs :
                /\ inflight.results[i] = Pending
                /\ inflight' = [inflight EXCEPT !.results[i] =
                                                    SettledResult(inflight.recs[i])]
          /\ UNCHANGED endGroup
       \/ /\ endGroup.active
          /\ \E i \in DOMAIN endGroup.recs :
                /\ endGroup.results[i] = Pending
                /\ endGroup' = [endGroup EXCEPT !.results[i] =
                                                    SettledResult(endGroup.recs[i])]
          /\ UNCHANGED inflight
    /\ UNCHANGED <<bpc, records, totalRecords, readPos, paused, currentChunk,
                   processedCount, events, ended, validations, srcFailed>>
    /\ UNCHANGED <<valVars, extVars>>

\* Promise.all of processChunk has resolved for group g (120-165)
Settled(g) ==
    /\ g.active
    /\ \A i \in DOMAIN g.recs : g.results[i] # Pending

GroupSettled == Settled(inflight)

\* The rest of the 'data' handler once processChunk has resolved (184-204).
\* The writes of the try block either succeed or throw into its catch.
WriteOutcomes == {"ok", "progress throws", "keepalive throws"}

GroupComplete ==
    /\ GroupSettled
    /\ inflight.from = "data"
    /\ \E w \in WriteOutcomes :
          LET n == processedCount + Len(inflight.results)
              ev == [type |-> "progress",
                     progress |-> Pct(n * 100, totalRecords),
                     results |-> inflight.results]
          IN  /\ events' = IF w = "progress throws" THEN events
                           ELSE Emit(events, ev)
              /\ processedCount' = IF w = "ok" THEN n
                                   ELSE n + Len(currentChunk)
    /\ currentChunk' = <<>>
    /\ paused' = FALSE
    /\ inflight' = NoGroup
    /\ UNCHANGED <<bpc, records, totalRecords, readPos, endGroup, ended,
                   validations, srcFailed>>
    /\ UNCHANGED <<valVars, extVars>>

\* 'end' is emitted while the parser is paused: the record that filled the
\* group was the last of the file and was read from the parser's buffer
\* after the end of the input had been seen (the records after the first
\* group are parsed while the parser is paused), so the stream scheduled
\* 'end' before it emitted that record, and pause() does not hold it back.
EndWhilePaused ==
    /\ paused
    /\ readPos > CHUNK_SIZE
    /\ inflight = StartGroup(currentChunk, "data")

\* The parser emits 'end' (208-228), once all its records have been
\* delivered. With a non-empty currentChunk the handler validates it; without
\* the complete event is written at once, the promise resolves and res.end()
\* follows (231).
End ==
    /\ bpc = "reading"
    /\ readPos = Len(records)
    /\ ~paused \/ EndWhilePaused
    /\ IF Len(currentChunk) > 0
       THEN /\ endGroup' = StartGroup(currentChunk, "end")
            /\ validations' = validations + Started(currentChunk)
            /\ bpc' = "ending"
            /\ UNCHANGED <<events, ended>>
       ELSE /\ events' = Emit(events, [type |-> "complete"])
            /\ ended' = TRUE
            /\ bpc' = "done"
            /\ UNCHANGED <<endGroup, validations>>
    /\ UNCHANGED <<records, totalRecords, readPos, paused, currentChunk,
                   processedCount, inflight, srcFailed>>
    /\ UNCHANGED <<valVars, extVars>>

\* The rest of the 'end' handler once processChunk has resolved (212-231)
FinalWriteOutcomes == {"ok", "progress throws"}

FinalGroupComplete ==
    /\ Settled(endGroup)
    /\ \E w \in FinalWriteOutcomes :
          LET ev == [type |-> "progress", progress |-> Pct(100, 1),
                     results |-> endGroup.results]
              written == IF w = "ok" THEN Emit(events, ev) ELSE events
          IN  events' = Emit(written, [type |-> "complete"])
    /\ processedCount' = processedCount + Len(endGroup.results)
    /\ endGroup' = NoGroup
    /\ ended' = TRUE
    /\ bpc' = "done"
    /\ UNCHANGED <<records, totalRecords, readPos, paused, currentChunk,
                   inflight, validations, srcFailed>>
    /\ UNCHANGED <<valVars, extVars>>

\* The second-pass parser emits 'error' (207): the promise is rejected, the
\* catch writes the error event and ends the response (232-240). A group in
\* flight goes on in its handler.
SecondPassError ==
    /\ bpc = "reading"
    /\ events' = Emit(events, [type |-> "error", error |-> "parse error"])
    /\ ended' = TRUE
    /\ srcFailed' = TRUE
    /\ bpc' = "failed"
    /\ UNCHANGED <<records, totalRecords, readPos, paused, currentChunk,
                   processedCount, inflight, endGroup, validations>>
    /\ UNCHANGED <<valVars, extVars>>

BatchNext ==
    \/ FirstPassEnd
    \/ FirstPassError
    \/ Data
    \/ ValidationDone
    \/ GroupComplete
    \/ End
    \/ FinalGroupComplete
    \/ SecondPassError

-----------------------------------------------------------------------------
(* One getProviderConfig call (providers.js 55-83)                         *)

\* String.prototype.toUpperCase on the ASCII letters
ToUpperCase(s) ==
    [i \in DOMAIN s |->
        IF s[i] \in Lower
        THEN UpperSeq[CHOOSE k \in DOMAIN LowerSeq : LowerSeq[k] = s[i]]
        ELSE s[i]]

\* The first letter in upper case
Capitalize(s) ==
    IF s = <<>> THEN s ELSE ToUpperCase(SubSeq(s, 1, 1)) \o SubSeq(s, 2, Len(s))

D_ex      == <<"e","x",".","i","o">>
D_gmailco == <<"g","m","a","i","l",".","c","o">>

\* The domains handed to getProviderConfig: every registered alias and MX
\* pattern and two unregistered names, alone, behind "mx." or "my" and in
\* front of ".google.com" or ".io", each in lower case, in upper case and
\* capitalized.
PolicyDomains ==
    LET pre  == { <<>>, <<"m","x",".">>, <<"m","y">> }
        core == { D_gmail, D_googlemail, D_google, D_outlook, D_hotmail,
                  D_live, D_msn, D_microsoft, D_yahoo, D_ymail, D_yahoodns,
                  D_ex, D_gmailco }
        post == { <<>>, <<".">> \o D_google, <<".","i","o">> }
        low  == { p \o c \o q : p \in pre, c \in core, q \in post }
    IN  low \cup {ToUpperCase(d) : d \in low} \cup {Capitalize(d) : d \in low}

PolicyIdle ==
    /\ ppc = "idle"
    /\ argDomain = <<>>
    /\ policy = NoValue

PolicyInit ==
    /\ ppc = "call"
    /\ argDomain \in PolicyDomains
    /\ policy = NoValue

\* The call runs and returns.
ResolvePolicy ==
    /\ ppc = "call"
    /\ policy' = getProviderConfig(argDomain)
    /\ ppc' = "returned"
    /\ UNCHANGED argDomain
    /\ UNCHANGED <<valVars, batchVars, probeVars, wireVars>>

-----------------------------------------------------------------------------
(* One verifyMailbox call (smtp.js 116-229) with its SMTPClient            *)

\* The policies a probe is run under: a provider's and the generic one
ProbePolicies == {getProviderConfig(D_gmail), getProviderConfig(D_ex)}

\* (mutation of HeloHosts: the target domain comes before config.heloHost)
HeloHosts_DomainFirst(cfg) ==
    <<"domain">> \o (IF cfg.heloHost # "" THEN <<cfg.heloHost>> ELSE <<>>) \o
    <<"host", "verify.local">>

\* heloHosts (131-136): filter(Boolean) drops a missing config.heloHost
HeloHosts(cfg) ==
    (IF cfg.heloHost # "" THEN <<cfg.heloHost>> ELSE <<>>) \o
    <<"domain", "host", "verify.local">>

\* fromAddresses (183-188)
FromAddresses(cfg) ==
    cfg.fromAddresses \o <<"verify@domain", "postmaster@domain", "check@domain">>

NoSocket == [exists |-> FALSE, destroyed |-> FALSE, secure |-> FALSE, quit |-> FALSE]

\* How connect(host) ends (16-38)
ConnectOutcomes == {"connected", "error", "timeout"}

\* Reply texts of the servers of the model: one that does not name STARTTLS
\* and one that names it in mixed case
F_plain == <<"o","k">>
F_tls   == <<"S","t","a","r","t","T","L","S">>

\* How one command() call settles (40-83): resolved with the code and the
\* text of the framed reply, or rejected
Reply(c, text) == [kind |-> "reply", code |-> c, fullResponse |-> text, error |-> ""]

Rejected(msg) == [kind |-> "rejected", code |-> 0, fullResponse |-> <<>>, error |-> msg]

GreetingOutcomes == {Reply(220, F_plain), Reply(554, F_plain), Rejected("Response timeout")}

EhloOutcomes == {Reply(250, F_plain), Reply(250, F_tls), Reply(502, F_plain),
                 Rejected("Response timeout")}

HeloOutcomes == {Reply(250, F_plain), Reply(502, F_plain), Rejected("Response timeout")}

StartTlsOutcomes == {Reply(220, F_plain), Reply(454, F_plain), Rejected("Response timeout")}

MailFromOutcomes == {Reply(250, F_plain), Reply(550, F_plain), Rejected("Response timeout")}

RcptOutcomes == {Reply(c, F_plain) : c \in {250, 450, 550}} \cup
                {Rejected("Response timeout"), Rejected("write failed")}

\* ehloResponse.fullResponse.toLowerCase().includes('starttls') (166)
AdvertisesTls(r) ==
    Includes(ToLowerCase(r.fullResponse), <<"s","t","a","r","t","t","l","s">>)

\* (mutation of TlsAccepted: the test of line 169 is missing)
TlsAccepted_Any(r) == TRUE

\* smtp.js 169
TlsAccepted(r) == r.code = 220

\* How upgradeToTLS() ends (85-101): the handshake completes, tlsSocket
\* emits 'error', or neither happens (no timer is set) and the promise stays
\* pending
UpgradeOutcomes == {"secure", "error", "pending"}

\* One step of the exchange as the dialog records it: the command and its
\* argument, whether it went over the upgraded socket, and how it settled
Step(cmd, arg, o) ==
    [cmd |-> cmd, arg |-> arg, secure |-> socket.secure, kind |-> o.kind, code |-> o.code]

\* An error leaves the try block (219-225)
Throw(msg) == [kind |-> "error", code |-> 0, tls |-> supportsTLS, error |-> msg]

\* (mutation of GreetingAccepted: the test of line 126 is missing)
GreetingAccepted_Any(r) == TRUE

\* smtp.js 126
GreetingAccepted(r) == r.code = 220

ProbeIdle ==
    /\ spc = "idle"
    /\ pcfg = NoValue
    /\ heloIdx = 0
    /\ fromIdx = 0
    /\ socket = NoSocket
    /\ dialog = <<>>
    /\ supportsTLS = FALSE
    /\ ehloResponse = NoValue
    /\ outcome = NoValue
    /\ pret = NoValue

ProbeInit ==
    /\ spc = "connect"
    /\ pcfg \in ProbePolicies
    /\ heloIdx = 0
    /\ fromIdx = 0
    /\ socket = NoSocket
    /\ dialog = <<>>
    /\ supportsTLS = FALSE
    /\ ehloResponse = NoValue
    /\ outcome = NoValue
    /\ pret = NoValue

\* client.connect(host) (16-38, 124). A failed connect has destroyed the
\* socket before 'error' is emitted; the connect timer calls cleanup().
Connect ==
    /\ spc = "connect"
    /\ \E c \in ConnectOutcomes, o \in CleanupOutcomes :
          CASE c = "connected" ->
                 /\ o = "ok"
                 /\ socket' = NewSocket
                 /\ spc' = "greeting"
                 /\ UNCHANGED outcome
            [] c = "error" ->
                 /\ o = "ok"
                 /\ socket' = cleanup([NewSocket EXCEPT !.destroyed = TRUE], o)
                 /\ outcome' = Throw("connect ECONNREFUSED")
                 /\ spc' = "finally"
            [] c = "timeout" ->
                 /\ socket' = cleanup(NewSocket, o)
                 /\ outcome' = Throw("Connection timeout")
                 /\ spc' = "finally"
    /\ UNCHANGED <<pcfg, heloIdx, fromIdx, dialog, supportsTLS, ehloResponse, pret>>
    /\ UNCHANGED <<valVars, batchVars, polVars, wireVars>>

\* The greeting (125-128)
Greeting ==
    /\ spc = "greeting"
    /\ \E o \in GreetingOutcomes :
          /\ dialog' = Append(dialog, Step("greeting", "", o))
          /\ IF o.kind = "rejected"
             THEN /\ outcome' = Throw(o.error)
                  /\ spc' = "finally"
                  /\ UNCHANGED heloIdx
             ELSE IF ~GreetingAccepted(o)
             THEN /\ outcome' = Throw("Invalid server greeting")
                  /\ spc' = "finally"
                  /\ UNCHANGED heloIdx
             ELSE /\ heloIdx' = 1
                  /\ spc' = "ehlo"
                  /\ UNCHANGED outcome
    /\ UNCHANGED <<pcfg, fromIdx, socket, supportsTLS, ehloResponse, pret>>
    /\ UNCHANGED <<valVars, batchVars, polVars, wireVars>>

\* The end of one iteration of the loop over heloHosts without success
\* (141, 156-163): the next host, or the throw after the loop.
NextHeloHost ==
    IF heloIdx < Len(HeloHosts(pcfg))
    THEN /\ heloIdx' = heloIdx + 1
         /\ spc' = "ehlo"
         /\ UNCHANGED outcome
    ELSE /\ outcome' = Throw("HELO/EHLO failed")
         /\ spc' = "finally"
         /\ UNCHANGED heloIdx

\* After the loop over heloHosts succeeded (161-166, 182-191)
AfterHelo(resp) ==
    /\ spc' = IF AdvertisesTls(resp) THEN "starttls" ELSE "mailfrom"
    /\ fromIdx' = IF AdvertisesTls(resp) THEN fromIdx ELSE 1
    /\ UNCHANGED <<heloIdx, outcome>>

\* EHLO heloHost (144-148)
Ehlo ==
    /\ spc = "ehlo"
    /\ \E o \in EhloOutcomes :
          /\ dialog' = Append(dialog, Step("EHLO", HeloHosts(pcfg)[heloIdx], o))
          /\ IF o.kind = "rejected"
             THEN /\ NextHeloHost
                  /\ UNCHANGED <<ehloResponse, fromIdx>>
             ELSE /\ ehloResponse' = o
                  /\ IF o.code = 250
                     THEN AfterHelo(o)
                     ELSE /\ spc' = "helo"
                          /\ UNCHANGED <<heloIdx, fromIdx, outcome>>
    /\ UNCHANGED <<pcfg, socket, supportsTLS, pret>>
    /\ UNCHANGED <<valVars, batchVars, polVars, wireVars>>

\* HELO heloHost (151-155)
Helo ==
    /\ spc = "helo"
    /\ \E o \in HeloOutcomes :
          /\ dialog' = Append(dialog, Step("HELO", HeloHosts(pcfg)[heloIdx], o))
          /\ IF o.kind = "rejected"
             THEN /\ NextHeloHost
                  /\ UNCHANGED <<ehloResponse, fromIdx>>
             ELSE /\ ehloResponse' = o
                  /\ IF o.code = 250
                     THEN AfterHelo(o)
                     ELSE /\ NextHeloHost
                          /\ UNCHANGED fromIdx
    /\ UNCHANGED <<pcfg, socket, supportsTLS, pret>>
    /\ UNCHANGED <<valVars, batchVars, polVars, wireVars>>

\* The catch of the STARTTLS block (175-179)
TlsCatch ==
    IF pcfg.requireTLS
    THEN /\ outcome' = Throw("Required TLS connection failed")
         /\ spc' = "finally"
         /\ UNCHANGED fromIdx
    ELSE /\ spc' = "mailfrom"
         /\ fromIdx' = 1
         /\ UNCHANGED outcome

\* STARTTLS (168-169): a reply other than 220 leaves the block without an
\* exception.
StartTls ==
    /\ spc = "starttls"
    /\ \E o \in StartTlsOutcomes :
          /\ dialog' = Append(dialog, Step("STARTTLS", "", o))
          /\ IF o.kind = "rejected"
             THEN TlsCatch
             ELSE IF TlsAccepted(o)
             THEN /\ spc' = "upgrade"
                  /\ UNCHANGED <<fromIdx, outcome>>
             ELSE /\ spc' = "mailfrom"
                  /\ fromIdx' = 1
                  /\ UNCHANGED outcome
    /\ UNCHANGED <<pcfg, heloIdx, socket, supportsTLS, ehloResponse, pret>>
    /\ UNCHANGED <<valVars, batchVars, polVars, wireVars>>

\* upgradeToTLS() (85-101, 170-171). While the promise is pending the call
\* stays at the await of line 170.
Upgrade ==
    /\ spc = "upgrade"
    /\ \E u \in UpgradeOutcomes :
          IF u = "pending"
          THEN /\ spc' = "handshake"
               /\ UNCHANGED <<dialog, socket, supportsTLS, fromIdx, outcome>>
          ELSE /\ dialog' = Append(dialog,
                      Step("TLS handshake", "",
                           IF u = "secure" THEN Reply(0, <<>>) ELSE Rejected("handshake")))
               /\ IF u = "secure"
                  THEN /\ socket' = [socket EXCEPT !.secure = TRUE]
                       /\ supportsTLS' = TRUE
                       /\ spc' = "reehlo"
                       /\ UNCHANGED <<fromIdx, outcome>>
                  ELSE /\ TlsCatch
                       /\ UNCHANGED <<socket, supportsTLS>>
    /\ UNCHANGED <<pcfg, heloIdx, ehloResponse, pret>>
    /\ UNCHANGED <<valVars, batchVars, polVars, wireVars>>

\* EHLO heloHosts[0] after the upgrade (173); its reply is not looked at.
ReEhlo ==
    /\ spc = "reehlo"
    /\ \E o \in EhloOutcomes :
          /\ dialog' = Append(dialog, Step("EHLO", HeloHosts(pcfg)[1], o))
          /\ IF o.kind = "rejected"
             THEN TlsCatch
             ELSE /\ spc' = "mailfrom"
                  /\ fromIdx' = 1
                  /\ UNCHANGED outcome
    /\ UNCHANGED <<pcfg, heloIdx, socket, supportsTLS, ehloResponse, pret>>
    /\ UNCHANGED <<valVars, batchVars, polVars, wireVars>>

\* MAIL FROM:<fromAddress> (193-207)
MailFrom ==
    /\ spc = "mailfrom"
    /\ \E o \in MailFromOutcomes :
          /\ dialog' = Append(dialog, Step("MAIL FROM", FromAddresses(pcfg)[fromIdx], o))
          /\ IF o.kind = "reply" /\ o.code = 250
             THEN /\ spc' = "rcpt"
                  /\ UNCHANGED <<fromIdx, outcome>>
             ELSE IF fromIdx < Len(FromAddresses(pcfg))
             THEN /\ fromIdx' = fromIdx + 1
                  /\ spc' = "mailfrom"
                  /\ UNCHANGED outcome
             ELSE /\ outcome' = Throw("MAIL FROM command failed")
                  /\ spc' = "finally"
                  /\ UNCHANGED fromIdx
    /\ UNCHANGED <<pcfg, heloIdx, socket, supportsTLS, ehloResponse, pret>>
    /\ UNCHANGED <<valVars, batchVars, polVars, wireVars>>

\* RCPT TO:<email> (210-218)
Rcpt ==
    /\ spc = "rcpt"
    /\ \E o \in RcptOutcomes :
          /\ dialog' = Append(dialog, Step("RCPT TO", "email", o))
          /\ outcome' = IF o.kind = "rejected" THEN Throw(o.error)
                        ELSE [kind |-> "reply", code |-> o.code,
                              tls |-> supportsTLS, error |-> ""]
    /\ spc' = "finally"
    /\ UNCHANGED <<pcfg, heloIdx, fromIdx, socket, supportsTLS, ehloResponse, pret>>
    /\ UNCHANGED <<valVars, batchVars, polVars, wireVars>>

\* The finally block and the return (212-228)
Finally ==
    /\ spc = "finally"
    /\ \E o \in CleanupOutcomes : socket' = cleanup(socket, o)
    /\ pret' = verifyMailbox(outcome)
    /\ spc' = "returned"
    /\ UNCHANGED <<pcfg, heloIdx, fromIdx, dialog, supportsTLS, ehloResponse, outcome>>
    /\ UNCHANGED <<valVars, batchVars, polVars, wireVars>>

ProbeNext ==
    \/ Connect
    \/ Greeting
    \/ Ehlo
    \/ Helo
    \/ StartTls
    \/ Upgrade
    \/ ReEhlo
    \/ MailFrom
    \/ Rcpt
    \/ Finally

-----------------------------------------------------------------------------
(* SMTPClient.command (smtp.js 40-83) on the byte stream of the socket     *)

\* Largest number of consecutive command() calls followed
MaxCommands == 2

DigitSeq == <<"0","1","2","3","4","5","6","7","8","9">>

\* parseInt of three digits
ParseCode(l) ==
    LET v(c) == (CHOOSE k \in DOMAIN DigitSeq : DigitSeq[k] = c) - 1
    IN  100 * v(l[1]) + 10 * v(l[2]) + v(l[3])

\* response.split('\r\n')
RECURSIVE SplitCRLF(_)
SplitCRLF(str) ==
    LET at == {i \in 1..(Len(str) - 1) : str[i] = "\r" /\ str[i + 1] = "\n"}
    IN  IF at = {} THEN <<str>>
        ELSE LET p == CHOOSE i \in at : \A j \in at : i <= j
             IN  <<SubSeq(str, 1, p - 1)>> \o SplitCRLF(SubSeq(str, p + 2, Len(str)))

\* line.match(/^\d{3}(?:[ -].*)?$/) && !line.match(/^\d{3}-/); the dot
\* matches neither \r nor \n.
IsFinalLine(l) ==
    /\ Len(l) >= 3
    /\ \A i \in 1..3 : l[i] \in Digit
    /\ Len(l) >= 4 =>
          /\ l[4] = " "
          /\ \A i \in 5..Len(l) : l[i] \notin {"\r", "\n"}

\* handleResponse (49-70): the buffer after data, and the reply resolved with
\* if one of the lines of the buffer is a final line
handleResponse(resp, data) ==
    LET buf   == resp \o data
        lines == SplitCRLF(buf)
        hits  == {i \in DOMAIN lines : IsFinalLine(lines[i])}
    IN  IF hits = {}
        THEN [done |-> FALSE, response |-> buf, code |-> 0, message |-> <<>>]
        ELSE LET line == lines[CHOOSE i \in hits : \A j \in hits : i <= j]
             IN  [done |-> TRUE, response |-> buf,
                  code |-> ParseCode(line),
                  message |-> SubSeq(line, 5, Len(line))]

R_ok    == <<"2","5","0"," ","o","k","\r","\n">>
R_no    == <<"5","5","0"," ","n","o","\r","\n">>
R_multi == <<"2","5","0","-","A","\r","\n">> \o R_ok

\* What a server answers a command with; the empty text: nothing
ReplyTexts == {R_ok, R_no, R_multi, <<>>}

\* The chunks a reply text reaches the socket in: whole, or cut in two at
\* any place
Chunkings(text, n) ==
    IF text = <<>> THEN { <<>> }
    ELSE { << [bytes |-> text, of |-> n] >> } \cup
         { << [bytes |-> SubSeq(text, 1, k), of |-> n],
              [bytes |-> SubSeq(text, k + 1, Len(text)), of |-> n] >>
              : k \in 1..(Len(text) - 1) }

WireIdle ==
    /\ wpc = "idle"
    /\ cmdNo = 0
    /\ response = <<>>
    /\ respFrom = {}
    /\ wire = <<>>
    /\ served = <<>>
    /\ replied = <<>>

WireInit ==
    /\ wpc = "ready"
    /\ cmdNo = 0
    /\ response = <<>>
    /\ respFrom = {}
    /\ wire = <<>>
    /\ served = <<>>
    /\ replied = <<>>

\* command(cmd) is called (41-82): the listener is attached, the timer
\* started and the command written; the server's answer is on its way in
\* some fragmentation. A write that throws rejects the promise at once.
IssueCommand ==
    /\ wpc = "ready"
    /\ cmdNo < MaxCommands
    /\ cmdNo' = cmdNo + 1
    /\ response' = <<>>
    /\ respFrom' = {}
    /\ \/ \E text \in ReplyTexts :
             /\ served' = Append(served, text)
             /\ \E ch \in Chunkings(text, cmdNo + 1) : wire' = wire \o ch
             /\ wpc' = "waiting"
             /\ UNCHANGED replied
       \/ /\ served' = Append(served, <<>>)
          /\ replied' = Append(replied,
                 [cmd |-> cmdNo + 1, kind |-> "rejected", code |-> 0,
                  message |-> <<>>, fullResponse |-> <<>>, from |-> {}])
          /\ wpc' = "ready"
          /\ UNCHANGED wire
    /\ UNCHANGED <<valVars, batchVars, polVars, probeVars>>

\* The socket emits 'data' with the next chunk while a command() is pending
\* (49-70).
Deliver ==
    /\ wpc = "waiting"
    /\ wire # <<>>
    /\ LET chunk == Head(wire)
           h     == handleResponse(response, chunk.bytes)
       IN  /\ wire' = Tail(wire)
           /\ response' = h.response
           /\ respFrom' = respFrom \cup {chunk.of}
           /\ IF h.done
              THEN /\ replied' = Append(replied,
                          [cmd |-> cmdNo, kind |-> "resolved", code |-> h.code,
                           message |-> h.message, fullResponse |-> h.response,
                           from |-> respFrom \cup {chunk.of}])
                   /\ wpc' = "ready"
              ELSE UNCHANGED <<replied, wpc>>
    /\ UNCHANGED <<cmdNo, served>>
    /\ UNCHANGED <<valVars, batchVars, polVars, probeVars>>

\* The timer of the pending command() fires (44-47).
ResponseTimeout ==
    /\ wpc = "waiting"
    /\ replied' = Append(replied,
           [cmd |-> cmdNo, kind |-> "rejected", code |-> 0,
            message |-> <<>>, fullResponse |-> <<>>, from |-> {}])
    /\ wpc' = "ready"
    /\ UNCHANGED <<cmdNo, response, respFrom, wire, served>>
    /\ UNCHANGED <<valVars, batchVars, polVars, probeVars>>

WireNext ==
    \/ IssueCommand
    \/ Deliver
    \/ ResponseTimeout

-----------------------------------------------------------------------------
(* Specifications                                                          *)

\* No bulk request is running.
BatchIdle ==
    /\ bpc = "idle"
    /\ records = <<>>
    /\ totalRecords = 0
    /\ readPos = 0
    /\ paused = FALSE
    /\ currentChunk = <<>>
    /\ processedCount = 0
    /\ inflight = NoGroup
    /\ endGroup = NoGroup
    /\ events = <<>>
    /\ ended = FALSE
    /\ validations = 0
    /\ srcFailed = FALSE

\* No validateEmail call is being followed.
ValIdle ==
    /\ pc = "idle"
    /\ email = NonString
    /\ result = InitResult(NonString)
    /\ mxRecords = <<>>
    /\ mxIdx = 0
    /\ lastError = ""
    /\ config = NoValue
    /\ attempt = 0
    /\ ctlError = ""
    /\ ctlReturn = NoValue
    /\ lastProbe = NoValue
    /\ net = NoNet
    /\ probeLog = <<>>
    /\ attemptLog = <<>>
    /\ world = FreeWorld

\* One validateEmail call; every lookup and every connection may end in any
\* of its outcomes.
ExtIdle == PolicyIdle /\ ProbeIdle /\ WireIdle

Init == ValInit /\ world = FreeWorld /\ BatchIdle /\ ExtIdle

Next == ValNext

Spec == Init /\ [][Next]_vars

\* One validateEmail call against a resolver and mail servers whose answers
\* are the same throughout the call.
InitWorld == ValInit /\ world \in FixedWorlds /\ BatchIdle /\ ExtIdle

SpecWorld == InitWorld /\ [][Next]_vars

\* One validateEmail call, the sockets of its attempts followed
NextSockets == SocketsNext

SpecSockets == Init /\ [][NextSockets]_vars

\* One bulk request
InitBatch == BatchInit /\ ValIdle /\ ExtIdle

NextBatch == BatchNext

SpecBatch == InitBatch /\ [][NextBatch]_vars

\* One getProviderConfig call
InitPolicy == PolicyInit /\ ValIdle /\ BatchIdle /\ ProbeIdle /\ WireIdle

NextPolicy == ResolvePolicy

SpecPolicy == InitPolicy /\ [][NextPolicy]_vars

\* One verifyMailbox call; the server and the network may do anything.
InitProbe == ProbeInit /\ ValIdle /\ BatchIdle /\ PolicyIdle /\ WireIdle

NextProbe == ProbeNext

SpecProbe == InitProbe /\ [][NextProbe]_vars

\* The same call when every timer that is set fires or is cleared and every
\* step that can be taken is taken: the call does not stop at a point it can
\* leave.
SpecProbeLive == SpecProbe /\ WF_vars(NextProbe)

\* Consecutive command() calls on one socket; the server answers each
\* command it receives, at any time and in any fragmentation.
InitWire == WireInit /\ ValIdle /\ BatchIdle /\ PolicyIdle /\ ProbeIdle

NextWire == WireNext

SpecWire == InitWire /\ [][NextWire]_vars

-----------------------------------------------------------------------------
(* Properties of validateEmail                                             *)

Checks == result.checks

\* The address passes the format check and both length checks.
WellFormed(e) ==
    /\ validateEmailFormat(e)
    /\ Len(LocalPartOf(e)) <= MaxLocalLen
    /\ Len(DomainOf(e)) <= MaxDomainLen

\* Number of verifyMailbox calls made for host h
HostProbes(h) == Cardinality({i \in DOMAIN probeLog : probeLog[i] = h})

\* Position of host h in mxRecords
HostIndex(h) == CHOOSE k \in DOMAIN mxRecords : mxRecords[k].exchange = h

\* C1: validateEmail never throws: no lookup failure, probe failure or input
\* makes an exception leave the call, and what it returns is a
\* ValidationResult for the address it was given.
C1_NeverThrows ==
    /\ pc # "threw"
    /\ pc = "done" =>
          /\ result.email = email
          /\ result.valid \in BOOLEAN
          /\ result.reason # ""

\* C1 witness: a call has returned after every probe of every MX host failed
\* with a TLS error.
C1_Witness ==
    /\ pc = "done"
    /\ Checks.mx /\ ~Checks.smtp /\ ~Checks.spf
    /\ Len(mxRecords) = 2
    /\ lastError = "Required TLS connection failed"

\* C2: in a returned result valid is true iff format, dns, mx and mailbox
\* are all true, and the SPF step changes neither those four checks nor
\* valid and always goes on to the SMTP stage, whatever the TXT lookup does.
C2_VerdictIgnoresSpf ==
    /\ [](pc = "done" =>
            (result.valid <=>
                (Checks.format /\ Checks.dns /\ Checks.mx /\ Checks.mailbox)))
    /\ [][pc = "spf" =>
            /\ pc' = "smtp"
            /\ result'.valid = result.valid
            /\ result'.checks.format = Checks.format
            /\ result'.checks.dns = Checks.dns
            /\ result'.checks.mx = Checks.mx
            /\ result'.checks.mailbox = Checks.mailbox]_vars

\* C2 witness: a result that is valid although no SPF record was found.
C2_Witness == pc = "done" /\ result.valid /\ ~Checks.spf

\* A verifyMailbox outcome or controller outcome carrying a reject code
IsReject(r) == r # NoValue /\ r.success /\ r.code \in config.rejectCodes

\* C6: a probe answered with a reject code makes performSMTPCheck return
\* success = true, mailboxExists = false at once; from then on no connection
\* is opened and no probe made, and the result has smtp = true,
\* mailbox = false, valid = false.
C6_RejectIsFinal ==
    /\ [](IsReject(lastProbe) =>
            /\ pc = "ret"
            /\ ctlReturn.success /\ ~ctlReturn.mailboxExists
            /\ ctlReturn.code = lastProbe.code)
    /\ []((pc \in {"final", "done"} /\ IsReject(result.details.smtpResponse)) =>
            /\ Checks.smtp /\ ~Checks.mailbox
            /\ pc = "done" => ~result.valid)
    /\ [][(IsReject(lastProbe) \/ IsReject(result.details.smtpResponse)) =>
            (net' = net /\ probeLog' = probeLog)]_vars

\* C6 witness: the first of two MX hosts answered 552 under a provider
\* policy, and the call returned after that single probe.
C6_Witness ==
    /\ pc = "done"
    /\ IsReject(result.details.smtpResponse)
    /\ result.details.smtpResponse.code = 552
    /\ Len(mxRecords) = 2 /\ Len(probeLog) = 1
    /\ ~result.valid

\* C7: performSMTPCheck gives up on a host only after retryAttempts
\* attempts; when each of them got a reply code (none of which returned, so
\* each was in none of the accept, reject and temp sets) the host was probed
\* exactly retryAttempts times. No host is probed more than retryAttempts
\* times, the hosts are probed in the order of mxRecords, the next host is
\* taken only when the attempts of the current one are used up, and the
\* probes of one call number at most |mxRecords| * retryAttempts.
C7_RetryBudget ==
    /\ []((pc = "ret" /\ ~ctlReturn.success) =>
            /\ attempt = config.retryAttempts
            /\ Len(attemptLog) = config.retryAttempts
            /\ (\A i \in DOMAIN attemptLog : attemptLog[i] = "reply") =>
                  HostProbes(mxRecords[mxIdx].exchange) = config.retryAttempts)
    /\ [](probeLog # <<>> =>
            /\ \A i \in DOMAIN probeLog :
                  /\ HostProbes(probeLog[i]) <= config.retryAttempts
                  /\ HostIndex(probeLog[i]) <= mxIdx
            /\ \A i, j \in DOMAIN probeLog :
                  i < j => HostIndex(probeLog[i]) <= HostIndex(probeLog[j])
            /\ Len(probeLog) <= Len(mxRecords) * config.retryAttempts)
    /\ [][(mxIdx >= 1 /\ mxIdx' # mxIdx) =>
            (mxIdx' = mxIdx + 1 /\ attempt = config.retryAttempts)]_vars

\* C7 witness: under the three-attempt policy the first host answered an
\* ambiguous code three times and the controller has given up on the second
\* host as well.
C7_Witness ==
    /\ pc = "ret" /\ ~ctlReturn.success
    /\ mxIdx = 2
    /\ config.retryAttempts = 3
    /\ \A i \in DOMAIN attemptLog : attemptLog[i] = "reply"
    /\ HostProbes(mxRecords[1].exchange) = 3
    /\ HostProbes(mxRecords[2].exchange) = 3

\* C9: an address that fails the format check gets format = false,
\* valid = false and reason 'Invalid email format', and at no point of its
\* validation is a DNS, MX or TXT lookup started or a connection opened.
C9_FormatFailure ==
    ~validateEmailFormat(email) =>
        /\ net = NoNet /\ probeLog = <<>>
        /\ pc \in {"start", "done"}
        /\ pc = "done" =>
              /\ ~Checks.format
              /\ ~result.valid
              /\ result.reason = "Invalid email format"

\* C9 witness: the call for "bad-format" has returned.
C9_Witness == pc = "done" /\ email = E_noAt /\ ~Checks.format

\* The records of s are in ascending order of priority.
Sorted(s) == \A i, j \in DOMAIN s : i < j => s[i].priority <= s[j].priority

\* Priority of host h in mxRecords
PriorityOf(h) == mxRecords[HostIndex(h)].priority

\* C12: details.mxRecords is sorted ascending by priority at every point of
\* the call, hence in what it returns; every connection is opened to the host
\* at the loop position, every host of strictly lower priority value precedes
\* that position, the position moves only to the next record and only after
\* performSMTPCheck returned success = false for the current host, and no
\* connection is opened once a host gave a definitive answer.
C12_MxOrder ==
    /\ [](Sorted(result.details.mxRecords) /\ Sorted(mxRecords))
    /\ [](\A i, j \in DOMAIN probeLog :
              i < j => PriorityOf(probeLog[i]) <= PriorityOf(probeLog[j]))
    /\ [][net'.conn # net.conn =>
            /\ pc = "smtp"
            /\ mxIdx \in DOMAIN mxRecords
            /\ \A k \in DOMAIN mxRecords :
                  mxRecords[k].priority < mxRecords[mxIdx].priority => k < mxIdx
            /\ probeLog' # probeLog =>
                  probeLog' = Append(probeLog, mxRecords[mxIdx].exchange)]_vars
    /\ [][(mxIdx >= 1 /\ mxIdx' # mxIdx) =>
            /\ pc = "ret" /\ ~ctlReturn.success
            /\ mxIdx' = mxIdx + 1]_vars
    /\ [][(pc = "ret" /\ ctlReturn.success) =>
            (pc' = "final" /\ net' = net)]_vars

\* C12 witness: the resolver answered mx-a with priority 20 before mx-b with
\* priority 10; mx-b was probed first, then mx-a, and the call has returned.
C12_Witness ==
    /\ pc = "done"
    /\ Len(result.details.mxRecords) = 2
    /\ result.details.mxRecords[1] = [exchange |-> "mx-b", priority |-> 10]
    /\ result.details.mxRecords[2] = [exchange |-> "mx-a", priority |-> 20]
    /\ probeLog # <<>>
    /\ probeLog[1] = "mx-b" /\ probeLog[Len(probeLog)] = "mx-a"

\* C13 as stated: the reason of an invalid result names the stage that
\* failed: format, DNS, MX, SMTP (no host gave a definitive answer) and
\* mailbox (a definitive reject) each have a reason of their own, an SMTP
\* failure being reported as 'SMTP verification failed: ...' and not as a
\* mailbox failure.
C13_ReasonNamesStage ==
    (pc = "done" /\ ~result.valid) =>
        /\ ~Checks.format => result.reason = "Invalid email format"
        /\ (WellFormed(email) /\ ~Checks.dns) =>
              result.reason = "Domain does not exist"
        /\ (Checks.dns /\ ~Checks.mx) =>
              result.reason = "No mail servers found for domain"
        /\ (Checks.mx /\ ~Checks.smtp) =>
              /\ result.reason # "Mailbox does not exist"
              /\ result.reason =
                    "SMTP verification failed: " \o
                        (IF lastError # "" THEN lastError ELSE "Unknown error")
        /\ (Checks.smtp /\ ~Checks.mailbox) =>
              result.reason = "Mailbox does not exist"

-----------------------------------------------------------------------------
(* Properties of validateEmail against fixed answers (SpecWorld)           *)

Resolves == world.a \/ world.aaaa \/ world.cname

HasMx == world.mx.kind = "records" /\ Len(world.mx.recs) >= 1

Answers250 == world.smtp.up /\ world.smtp.rcpt = 250

\* C8 as stated: every well-formed address whose domain has an MX record and
\* whose servers answer RCPT TO with 250 is valid, with no condition on the
\* A/AAAA/CNAME records.
C8_Original ==
    (pc = "done" /\ WellFormed(email) /\ HasMx /\ Answers250) =>
        (result.valid /\ Checks.mailbox)

\* C8 amended: such an address is valid, with mailbox = true, when one of
\* the A, AAAA and CNAME lookups of the domain succeeds; when all three fail
\* it is invalid with reason 'Domain does not exist' and neither the MX
\* lookup nor a probe is made.
C8_ValidWhenResolves ==
    (pc = "done" /\ WellFormed(email) /\ HasMx /\ Answers250) =>
        IF Resolves
        THEN /\ result.valid /\ Checks.mailbox
             /\ result.reason = "Email verified successfully"
        ELSE /\ ~result.valid /\ ~Checks.dns
             /\ result.reason = "Domain does not exist"
             /\ net.mx = 0 /\ net.probe = 0

\* C8 witness: a domain that has only a CNAME record and two MX hosts
\* answering 250 was found valid.
C8_Witness ==
    /\ pc = "done" /\ result.valid /\ Checks.mailbox
    /\ ~world.a /\ ~world.aaaa /\ world.cname
    /\ Len(world.mx.recs) = 2 /\ Answers250

\* C10: a well-formed address whose domain resolves but has no MX records,
\* or whose MX lookup fails, gets mx = smtp = mailbox = false, valid = false
\* and reason 'No mail servers found for domain', and during its validation
\* no TXT lookup is started and no connection opened.
C10_NoMx ==
    (WellFormed(email) /\ Resolves /\ ~HasMx) =>
        /\ net.txt = 0 /\ net.conn = 0 /\ net.probe = 0
        /\ pc = "done" =>
              /\ ~Checks.mx /\ ~Checks.smtp /\ ~Checks.mailbox
              /\ ~result.valid
              /\ result.reason = "No mail servers found for domain"
              /\ net.mx = 1

\* C10 witness: the MX lookup of a resolving domain failed and the call has
\* returned.
C10_Witness ==
    /\ pc = "done" /\ WellFormed(email) /\ Resolves
    /\ world.mx.kind = "error"
    /\ result.reason = "No mail servers found for domain"

\* C11: the DNS stage succeeds iff one of the A, AAAA and CNAME lookups of
\* the domain succeeds: a call gets past the stage only for a domain that
\* resolves and then has dns = true; when all three lookups fail no MX or TXT
\* lookup is started and no connection opened, and the result is
\* valid = false, dns = false, reason 'Domain does not exist'.
C11_DnsStage ==
    /\ pc \in {"mx", "spf", "smtp", "backoff", "ret", "final"} =>
          (Resolves /\ Checks.dns)
    /\ (pc = "done" /\ WellFormed(email) /\ Resolves) => Checks.dns
    /\ (WellFormed(email) /\ ~Resolves) =>
          /\ net.mx = 0 /\ net.txt = 0 /\ net.conn = 0 /\ net.probe = 0
          /\ pc \in {"start", "dns", "done"}
          /\ pc = "done" =>
                /\ net.dns = 3
                /\ ~Checks.dns /\ ~result.valid
                /\ result.reason = "Domain does not exist"

\* C11 witness: all three lookups failed for a domain that has MX records
\* and a server answering 250, and the call has returned.
C11_Witness ==
    /\ pc = "done" /\ WellFormed(email) /\ ~Resolves
    /\ HasMx /\ Answers250
    /\ net.dns = 3
    /\ result.reason = "Domain does not exist"

-----------------------------------------------------------------------------
(* Properties of getProviderConfig (SpecPolicy)                            *)

\* The providers one of whose registered aliases is d
AliasOwners(d) ==
    {i \in DOMAIN PROVIDERS : \E k \in DOMAIN PROVIDERS[i].domains :
                                  PROVIDERS[i].domains[k] = d}

\* The providers one of whose MX patterns occurs in d
PatternOwners(d) ==
    {i \in DOMAIN PROVIDERS : \E k \in DOMAIN PROVIDERS[i].mxDomains :
                                  Includes(d, PROVIDERS[i].mxDomains[k])}

\* C14: the policy returned for a domain is that of the provider having the
\* lower-cased domain as an alias, whatever patterns the domain contains;
\* failing that, that of the first provider of the table one of whose MX
\* patterns occurs in the lower-cased domain; failing that the generic
\* policy (reliable = false, requireTLS = false, 251 accepted, tempCodes
\* present). It depends on the lower-cased domain only.
C14_PolicyPrecedence ==
    ppc = "returned" =>
        LET d == ToLowerCase(argDomain)
        IN  /\ \A i \in AliasOwners(d) : policy = ConfigOf(PROVIDERS[i])
            /\ (AliasOwners(d) = {} /\ PatternOwners(d) # {}) =>
                  \E i \in PatternOwners(d) :
                      /\ \A j \in PatternOwners(d) : i <= j
                      /\ policy = ConfigOf(PROVIDERS[i])
            /\ (AliasOwners(d) = {} /\ PatternOwners(d) = {}) =>
                  /\ policy = GenericConfig
                  /\ ~policy.reliable /\ ~policy.requireTLS
                  /\ 251 \in policy.acceptCodes
                  /\ policy.hasTempCodes /\ policy.tempCodes # {}
            /\ policy = getProviderConfig(d)
            /\ policy = getProviderConfig(ToUpperCase(argDomain))

\* C14 witness: "MX.HOTMAIL.COM.GOOGLE.COM" is no alias, contains a pattern
\* of outlook.com and one of gmail.com, and got the policy of gmail.com, the
\* first of the two in the table.
C14_Witness ==
    /\ ppc = "returned"
    /\ argDomain = ToUpperCase(<<"m","x",".">> \o D_hotmail \o <<".">> \o D_google)
    /\ AliasOwners(ToLowerCase(argDomain)) = {}
    /\ PatternOwners(ToLowerCase(argDomain)) = {1, 2}
    /\ policy.provider = "gmail.com"

-----------------------------------------------------------------------------
(* Properties of the bulk route                                            *)

\* The ids of the augmented records carried by the progress events, in order
RECURSIVE DeliveredIds(_)
DeliveredIds(evs) ==
    IF evs = <<>> THEN <<>>
    ELSE (IF Head(evs).type = "progress"
          THEN [i \in DOMAIN Head(evs).results |-> Head(evs).results[i].id]
          ELSE <<>>) \o DeliveredIds(Tail(evs))

\* a/b <= c/d for fractions with positive denominators
PctLeq(p, q) == p.num * q.den <= q.num * p.den

\* C3 as stated: when the stream has ended with complete, the progress
\* events carry each of the N input records exactly once.
C3_NoRecordLost ==
    bpc = "done" =>
        LET ids == DeliveredIds(events)
        IN  /\ Len(ids) = Len(records)
            /\ \A i \in DOMAIN ids : ids[i] = records[i].id

\* C4 as stated: a run that the source lets finish emits init, then one or
\* more progress events with non-decreasing percentages none above 100, then
\* complete.
C4_EventOrder ==
    bpc = "done" =>
        LET n == Len(events)
        IN  /\ n >= 3
            /\ events[1].type = "init"
            /\ events[n].type = "complete"
            /\ \A i \in 2..(n - 1) :
                  /\ events[i].type = "progress"
                  /\ PctLeq(events[i].progress, Pct(100, 1))
            /\ \A i, j \in 2..(n - 1) :
                  i < j => PctLeq(events[i].progress, events[j].progress)

\* C5: a file without records yields exactly one event, of type error, and
\* no validateEmail call: nothing is written before the count is known,
\* and after it the error event is all there is.
C5_EmptyInput ==
    Len(records) = 0 =>
        /\ validations = 0
        /\ \A i \in DOMAIN events : events[i].type = "error"
        /\ IF bpc = "count" THEN events = <<>> ELSE Len(events) = 1

\* C5 witness: the first pass counted no record and the route has ended the
\* response after the error event.
C5_Witness ==
    /\ Len(records) = 0 /\ bpc = "failed" /\ ~srcFailed /\ ended
    /\ events = <<[type |-> "error", error |-> "CSV file is empty"]>>

Terminal(e) == e.type \in {"complete", "error"}

ExpectedResult(id) ==
    LET rec == records[id]
    IN  CASE rec.kind = "noemail" ->
                [id |-> id, validation_result |-> "Invalid",
                 validation_reason |-> "No email address found",
                 checks |-> AllFalse]
          [] rec.kind = "throws" ->
                [id |-> id, validation_result |-> "Invalid",
                 validation_reason |-> "Processing error: lookup failed",
                 checks |-> AllFalse]
          [] rec.kind = "valid" ->
                [id |-> id, validation_result |-> "Valid",
                 validation_reason |-> "Email verified successfully",
                 checks |-> [mx |-> TRUE, dns |-> TRUE, spf |-> TRUE,
                             mailbox |-> TRUE, smtp |-> TRUE]]
          [] OTHER ->
                [id |-> id, validation_result |-> "Invalid",
                 validation_reason |-> "Mailbox does not exist",
                 checks |-> [mx |-> TRUE, dns |-> TRUE, spf |-> FALSE,
                             mailbox |-> FALSE, smtp |-> TRUE]]

\* The group a step hands to processChunk, or NoGroup
NewGroup ==
    IF inflight'.active /\ ~inflight.active THEN inflight'
    ELSE IF endGroup'.active /\ ~endGroup.active THEN endGroup'
    ELSE NoGroup

\* C18: a record without address and a record whose validation throws do
\* not disturb their group: every progress event carries a whole group (five
\* consecutive records, or the remainder), each record with the result owed
\* to it ('No email address found' / 'Processing error: ...' / the verdict
\* of validateEmail); when a group is handed to processChunk validateEmail
\* is called for exactly its records that have an address, and at no other
\* time; and no error event comes from a record.
C18_RecordFailureIsLocal ==
    /\ [](\A e \in DOMAIN events :
             events[e].type = "progress" =>
                 LET rs    == events[e].results
                     first == rs[1].id
                 IN  /\ Len(rs) >= 1
                     /\ (first - 1) % CHUNK_SIZE = 0
                     /\ Len(rs) = IF first + CHUNK_SIZE - 1 <= Len(records)
                                  THEN CHUNK_SIZE ELSE Len(records) - first + 1
                     /\ \A i \in DOMAIN rs :
                           /\ rs[i].id = first + i - 1
                           /\ rs[i] = ExpectedResult(rs[i].id))
    /\ [][validations' = validations +
             Cardinality({i \in DOMAIN NewGroup.recs :
                             NewGroup.recs[i].kind # "noemail"})]_vars
    /\ [](\A e \in DOMAIN events :
             events[e].type = "error" => (srcFailed \/ Len(records) = 0))

\* C18 witness: a finished request one of whose progress events carries a
\* record without address, a record whose validation threw and a valid one.
C18_Witness ==
    /\ bpc = "done"
    /\ \E e \in DOMAIN events :
          /\ events[e].type = "progress"
          /\ Len(events[e].results) = CHUNK_SIZE
          /\ \E i, j, k \in DOMAIN events[e].results :
                /\ events[e].results[i].validation_reason = "No email address found"
                /\ events[e].results[j].validation_reason = "Processing error: lookup failed"
                /\ events[e].results[k].validation_result = "Valid"

-----------------------------------------------------------------------------
(* Properties of verifyMailbox (SpecProbe)                                 *)

\* The steps of the dialog that are command cmd answered with code c
Answered(cmd, c) ==
    {i \in DOMAIN dialog :
        dialog[i].cmd = cmd /\ dialog[i].kind = "reply" /\ dialog[i].code = c}

Sent(cmd) == {i \in DOMAIN dialog : dialog[i].cmd = cmd}

\* C15 as stated: whichever way the attempt ends, and whatever happens
\* inside cleanup, verifyMailbox returns the outcome the try block produced,
\* raises nothing, and the socket it used is closed when it returns.
C15_ClosedOnReturn ==
    spc = "returned" =>
        /\ pret = verifyMailbox(outcome)
        /\ socket.exists /\ socket.destroyed

\* C16 as stated: under requireTLS = true, after a STARTTLS that was not
\* answered 220, or timed out, or whose handshake failed, no MAIL FROM and no
\* RCPT TO is sent and the attempt returns 'Required TLS connection failed';
\* under requireTLS = false the next step after such a failure is MAIL FROM
\* on the unencrypted channel.
C16_TlsRequired ==
    \A i \in DOMAIN dialog :
        (/\ dialog[i].cmd \in {"STARTTLS", "TLS handshake"}
         /\ ~(dialog[i].kind = "reply" /\ dialog[i].code \in {0, 220})) =>
            IF pcfg.requireTLS
            THEN /\ i = Len(dialog)
                 /\ spc \in {"finally", "returned"}
                 /\ outcome.error = "Required TLS connection failed"
                 /\ spc = "returned" =>
                       (~pret.success /\ pret.error = "Required TLS connection failed")
            ELSE /\ i = Len(dialog) => spc = "mailfrom"
                 /\ i < Len(dialog) =>
                       (dialog[i + 1].cmd = "MAIL FROM" /\ ~dialog[i + 1].secure)

\* C19: RCPT TO is sent only after a greeting read as 220, then an EHLO or
\* HELO answered 250, then a MAIL FROM answered 250, in that order; a call
\* that returned without one of the three returned success = false and sent
\* no RCPT TO; a call returns success = true only with the reply to RCPT TO.
C19_CommandOrder ==
    /\ \A r \in Sent("RCPT TO") :
          \E g \in Answered("greeting", 220),
             h \in Answered("EHLO", 250) \cup Answered("HELO", 250),
             m \in Answered("MAIL FROM", 250) :
                g < h /\ h < m /\ m < r
    /\ spc = "returned" =>
          /\ (\/ Answered("greeting", 220) = {}
              \/ Answered("EHLO", 250) \cup Answered("HELO", 250) = {}
              \/ Answered("MAIL FROM", 250) = {}) =>
                 (~pret.success /\ Sent("RCPT TO") = {})
          /\ pret.success =>
                 \E r \in Sent("RCPT TO") :
                     /\ r = Len(dialog)
                     /\ dialog[r].kind = "reply" /\ dialog[r].code = pret.code

\* C19 witness: under the generic policy the first EHLO timed out, the
\* second was refused and its HELO accepted, the first sender was refused
\* and the second accepted, and RCPT TO was answered 550.
C19_Witness ==
    /\ spc = "returned" /\ pret.success /\ pret.code = 550
    /\ ~pcfg.requireTLS
    /\ Len(dialog) = 7
    /\ dialog[2].cmd = "EHLO" /\ dialog[2].kind = "rejected"
    /\ dialog[3].cmd = "EHLO" /\ dialog[3].code = 502
    /\ dialog[4].cmd = "HELO" /\ dialog[4].code = 250
    /\ dialog[5].cmd = "MAIL FROM" /\ dialog[5].code = 550
    /\ dialog[6].cmd = "MAIL FROM" /\ dialog[6].code = 250

-----------------------------------------------------------------------------
(* Properties of SMTPClient.command (SpecWire)                             *)

\* C20 as stated: a command is written only when no byte of an earlier reply
\* is still to come, and a command() call that resolves does so with the
\* reply the server gave to that command: its bytes are those of that reply
\* and of no other, whenever the replies arrive and however they are cut.
C20_Sequential ==
    /\ [][cmdNo' # cmdNo => wire = <<>>]_vars
    /\ [](\A i \in DOMAIN replied :
              replied[i].kind = "resolved" =>
                  /\ replied[i].from = {replied[i].cmd}
                  /\ replied[i].fullResponse = served[replied[i].cmd])

-----------------------------------------------------------------------------
(* Timeouts and termination of verifyMailbox (SpecProbe)                   *)

\* The commands of the dialog whose command() call was rejected by the
\* response timer (44-47); RCPT TO can also be rejected by a failed write
\* and is left out.
TimedOut ==
    {i \in DOMAIN dialog :
        /\ dialog[i].kind = "rejected"
        /\ dialog[i].cmd \in {"greeting", "EHLO", "HELO", "STARTTLS", "MAIL FROM"}}

\* C21 as stated: when the response timer of a command fires, nothing more
\* is sent on that connection and the attempt ends there with a failure
\* outcome; an attempt in which a timer fired (the connect timer included)
\* returns success = false. (That the socket is destroyed when the attempt
\* returns is C15.)
C21_TimeoutEndsAttempt ==
    /\ \A i \in TimedOut :
          /\ i = Len(dialog)
          /\ spc \in {"finally", "returned"}
          /\ outcome.kind = "error"
    /\ (spc = "returned" /\ (TimedOut # {} \/ outcome.error = "Connection timeout")) =>
          ~pret.success

\* C22 as stated: every verifyMailbox call returns, with its socket closed,
\* whatever the server does or stops doing.
C22_ProbeTerminates == <>(spc = "returned")

-----------------------------------------------------------------------------
(* Framing of replies by SMTPClient.command (SpecWire)                     *)

\* C23 as stated: a command() call whose buffer holds bytes of its own reply
\* only resolves with the code, the message and the full text it resolves
\* with when that reply arrives in one delivery, however the reply is cut.
C23_Framing ==
    \A i \in DOMAIN replied :
        (replied[i].kind = "resolved" /\ replied[i].from = {replied[i].cmd}) =>
            LET whole == handleResponse(<<>>, served[replied[i].cmd])
            IN  /\ whole.done
                /\ replied[i].code = whole.code
                /\ replied[i].message = whole.message
                /\ replied[i].fullResponse = whole.response

-----------------------------------------------------------------------------
(* EHLO/HELO negotiation and STARTTLS (SpecProbe)                          *)

\* The steps of the negotiation: EHLO and HELO on the socket as connected
Negotiation ==
    {i \in DOMAIN dialog : dialog[i].cmd \in {"EHLO", "HELO"} /\ ~dialog[i].secure}

\* The candidate identities in the order of the claim
Candidates ==
    (IF pcfg.heloHost # "" THEN <<pcfg.heloHost>> ELSE <<>>) \o
    <<"domain", "host", "verify.local">>

\* The number of EHLO steps of the negotiation up to step i
EhloCount(i) ==
    Cardinality({j \in Negotiation : j <= i /\ dialog[j].cmd = "EHLO"})

\* C24: the k-th EHLO of the negotiation names the k-th candidate; a HELO
\* follows the EHLO of the same candidate, and only when that EHLO was
\* answered with a code other than 250; nothing of the negotiation follows a
\* 250; a call that got a 220 greeting and no 250 for any candidate has tried
\* them all and returns 'HELO/EHLO failed'.
C24_Negotiation ==
    /\ \A i \in Negotiation :
          /\ EhloCount(i) \in 1..Len(Candidates)
          /\ dialog[i].arg = Candidates[EhloCount(i)]
          /\ dialog[i].cmd = "HELO" =>
                /\ i - 1 \in Negotiation
                /\ dialog[i - 1].cmd = "EHLO"
                /\ dialog[i - 1].arg = dialog[i].arg
                /\ dialog[i - 1].kind = "reply" /\ dialog[i - 1].code # 250
          /\ (dialog[i].kind = "reply" /\ dialog[i].code = 250) =>
                \A j \in Negotiation : j <= i
    /\ (/\ spc = "returned"
        /\ Answered("greeting", 220) # {}
        /\ \A i \in Negotiation : ~(dialog[i].kind = "reply" /\ dialog[i].code = 250)) =>
          /\ EhloCount(Len(dialog)) = Len(Candidates)
          /\ ~pret.success /\ pret.error = "HELO/EHLO failed"
          /\ Sent("MAIL FROM") = {} /\ Sent("RCPT TO") = {}

\* C24 witness: under a provider policy the EHLO of the policy's heloHost
\* timed out, the EHLO of the target domain was refused and its HELO
\* answered 250, and the call went on to MAIL FROM and returned.
C24_Witness ==
    /\ spc = "returned"
    /\ pcfg.heloHost # ""
    /\ Len(dialog) >= 5
    /\ dialog[2].cmd = "EHLO" /\ dialog[2].arg = pcfg.heloHost
    /\ dialog[2].kind = "rejected"
    /\ dialog[3].cmd = "EHLO" /\ dialog[3].arg = "domain" /\ dialog[3].code = 502
    /\ dialog[4].cmd = "HELO" /\ dialog[4].arg = "domain" /\ dialog[4].code = 250
    /\ dialog[5].cmd = "MAIL FROM"

\* The completed TLS handshakes of the dialog
Upgraded == {i \in Sent("TLS handshake") : dialog[i].kind = "reply"}

\* C25: STARTTLS is sent right after the winning EHLO or HELO and only when
\* the text of that reply contains 'starttls' in any case; a TLS handshake is
\* started only on a STARTTLS answered 220; the step after a completed
\* handshake is EHLO on the upgraded socket, so no MAIL FROM comes in
\* between; the returned supportsTLS tells whether a handshake completed.
C25_StartTls ==
    /\ \A i \in Sent("STARTTLS") :
          /\ i - 1 \in Negotiation
          /\ dialog[i - 1].kind = "reply" /\ dialog[i - 1].code = 250
          /\ ehloResponse.code = 250
          /\ Includes(ToLowerCase(ehloResponse.fullResponse),
                      <<"s","t","a","r","t","t","l","s">>)
    /\ \A i \in Sent("TLS handshake") :
          /\ dialog[i - 1].cmd = "STARTTLS"
          /\ dialog[i - 1].kind = "reply" /\ dialog[i - 1].code = 220
    /\ socket.secure => Upgraded # {}
    /\ \A i \in Upgraded :
          /\ i = Len(dialog) => spc = "reehlo"
          /\ i < Len(dialog) =>
                /\ dialog[i + 1].cmd = "EHLO"
                /\ dialog[i + 1].secure
                /\ dialog[i + 1].arg = Candidates[1]
          /\ \A j \in Sent("MAIL FROM") : j > i => (j > i + 1 /\ dialog[j].secure)
    /\ spc = "returned" => (pret.supportsTLS <=> Upgraded # {})

\* C25 witness: the winning reply named StartTLS, STARTTLS was answered 220,
\* the handshake completed, EHLO was sent again and RCPT TO was answered.
C25_Witness ==
    /\ spc = "returned"
    /\ pret.success /\ pret.supportsTLS
    /\ ehloResponse.fullResponse = F_tls
    /\ \E i \in Upgraded :
          /\ dialog[i + 1].cmd = "EHLO" /\ dialog[i + 1].kind = "reply"
          /\ dialog[i + 2].cmd = "MAIL FROM"

-----------------------------------------------------------------------------
(* Classification of the RCPT TO reply (Spec)                              *)

\* The verifyMailbox call whose outcome performSMTPCheck just returned on
Returned == pc = "ret" /\ ctlReturn.success

\* C26: verifyMailbox reports mailboxExists exactly for the reply code 250,
\* under every policy; a value performSMTPCheck returns from its loop is
\* fixed by where the reply code lies in acceptCodes, rejectCodes and
\* tempCodes of the policy, whatever that flag says: every code of
\* acceptCodes gives success = true, mailboxExists = true.
C26_CodeDecides ==
    /\ lastProbe # NoValue =>
          (lastProbe.mailboxExists <=> (lastProbe.success /\ lastProbe.code = 250))
    /\ Returned =>
          /\ lastProbe.success
          /\ ctlReturn.code = lastProbe.code
          /\ \/ /\ lastProbe.code \in config.acceptCodes
                /\ ctlReturn.mailboxExists
             \/ /\ lastProbe.code \notin config.acceptCodes
                /\ lastProbe.code \in config.rejectCodes
                /\ ~ctlReturn.mailboxExists
             \/ /\ lastProbe.code \notin config.acceptCodes \cup config.rejectCodes
                /\ ~config.reliable /\ lastProbe.code \in config.tempCodes
                /\ ctlReturn.mailboxExists
    /\ (pc = "ret" /\ lastProbe # NoValue /\ lastProbe.success
           /\ lastProbe.code \in config.acceptCodes) => Returned

\* C26 witness: under the generic policy RCPT TO was answered 251; the
\* client's flag is false and the controller returns mailboxExists = true.
C26_Witness ==
    /\ Returned
    /\ config.provider = "generic"
    /\ lastProbe.code = 251 /\ ~lastProbe.mailboxExists
    /\ ctlReturn.mailboxExists

\* The step is a verifyMailbox call that came back with the reply code c
ProbeReplied(c) ==
    /\ probeLog' # probeLog
    /\ lastProbe'.success /\ lastProbe'.code = c

IsProtected(v) == v # NoValue /\ "protected" \in DOMAIN v

\* C27: a reply code of tempCodes under a policy with reliable = false makes
\* performSMTPCheck return success = true, mailboxExists = true,
\* protected = true at once, no further probe is made and the address comes
\* out valid; under a policy that is reliable or has no tempCodes the same
\* code leaves 'Ambiguous server response' as the last error and the loop
\* goes to its next iteration.
C27_TempCodes ==
    /\ [][\A c \in GenericConfig.tempCodes : ProbeReplied(c) =>
             IF ~config.reliable /\ config.hasTempCodes /\ c \in config.tempCodes
             THEN /\ pc' = "ret"
                  /\ ctlReturn'.success /\ ctlReturn'.mailboxExists
                  /\ IsProtected(ctlReturn') /\ ctlReturn'.protected
                  /\ ctlReturn'.code = c
             ELSE /\ pc' = "smtp"
                  /\ attempt' = attempt + 1
                  /\ mxIdx' = mxIdx
                  /\ ctlError' = "Ambiguous server response"]_vars
    /\ [][(pc = "ret" /\ IsProtected(ctlReturn)) =>
             (pc' = "final" /\ probeLog' = probeLog /\ net' = net)]_vars
    /\ [](pc = "done" /\ IsProtected(result.details.smtpResponse) =>
             /\ result.valid
             /\ result.checks.smtp /\ result.checks.mailbox
             /\ result.reason = "Email verified successfully")

\* C27 witness: under the generic policy the first probe was answered 450
\* and the address came out valid after that single probe.
C27_Witness ==
    /\ pc = "done" /\ result.valid
    /\ config.provider = "generic"
    /\ IsProtected(result.details.smtpResponse)
    /\ result.details.smtpResponse.code = 450
    /\ Len(probeLog) = 1

-----------------------------------------------------------------------------
(* The loop over the MX hosts (Spec)                                       *)

\* A value performSMTPCheck returns from inside its loop under policy cfg
Definitive(cfg, v) ==
    /\ v.success
    /\ \/ v.code \in cfg.acceptCodes /\ v.mailboxExists
       \/ v.code \in cfg.rejectCodes /\ ~v.mailboxExists
       \/ IsProtected(v) /\ v.mailboxExists

\* C28: the value a host's performSMTPCheck returned with success = true
\* becomes details.smtpResponse and ends the loop: the loop position stays,
\* nothing is connected to afterwards, and every probe of the call went to a
\* host at or before that position. A call that ran through all hosts
\* without such a value made retryAttempts attempts on the last host and
\* returns smtp = false, mailbox = false, valid = false with
\* details.smtpResponse = {success: false, mailboxExists: false, error: the
\* last error of the last host}.
C28_FirstDefinitiveWins ==
    /\ [][Returned =>
             /\ result'.details.smtpResponse = ctlReturn
             /\ result'.checks.smtp
             /\ result'.checks.mailbox = ctlReturn.mailboxExists
             /\ mxIdx' = mxIdx]_vars
    /\ [][(pc = "final" \/ pc = "done") => (net' = net /\ probeLog' = probeLog)]_vars
    /\ []((pc = "done" /\ result.checks.smtp) =>
             /\ Definitive(config, result.details.smtpResponse)
             /\ probeLog # <<>>
             /\ probeLog[Len(probeLog)] = mxRecords[mxIdx].exchange
             /\ \A i \in DOMAIN probeLog : HostIndex(probeLog[i]) <= mxIdx)
    /\ []((pc = "done" /\ result.checks.mx /\ ~result.checks.smtp) =>
             /\ ~result.checks.mailbox /\ ~result.valid
             /\ mxIdx = Len(mxRecords)
             /\ Len(attemptLog) = config.retryAttempts
             /\ ctlError # ""
             /\ result.details.smtpResponse =
                   [success |-> FALSE, mailboxExists |-> FALSE, error |-> ctlError]
             /\ lastError = ctlError)

\* C28 witness: two hosts, none gave a definitive answer; verifyMailbox was
\* called for both and the last error was a response timeout.
C28_Witness ==
    /\ pc = "done"
    /\ Len(mxRecords) = 2 /\ mxIdx = 2
    /\ ~result.checks.smtp /\ ~result.valid
    /\ HostProbes(mxRecords[1].exchange) >= 1
    /\ HostProbes(mxRecords[2].exchange) >= 1
    /\ result.details.smtpResponse.error = "Response timeout"

\* The step is an attempt of performSMTPCheck that ended without a reply
\* code: its preliminary connection failed or verifyMailbox returned an error
AttemptFailed ==
    /\ Len(attemptLog') = Len(attemptLog) + 1
    /\ attemptLog'[Len(attemptLog')] = "none"

\* C29 as stated: an attempt that ends in a transport failure and is not the
\* last one for its host is followed by the backoff wait before the next
\* attempt starts; a definitive answer is followed by neither wait nor retry.
C29_Backoff ==
    /\ [][(AttemptFailed /\ attempt < config.retryAttempts - 1) =>
             pc' = "backoff"]_vars
    /\ [][Returned => (pc' = "final" /\ net' = net)]_vars

-----------------------------------------------------------------------------
(* Backpressure of the bulk route (SpecBatch)                              *)

\* The validateEmail calls of group g that have not settled
PendingIn(g) == {i \in DOMAIN g.results : g.results[i] = Pending}

\* C30 as stated: while the group that reached five records is being
\* validated no record is consumed, at most five validations of the batch
\* are in flight at any time, and no group is handed to processChunk while
\* another is being validated.
C30_Backpressure ==
    /\ [][inflight.active => readPos' = readPos]_vars
    /\ [](Cardinality(PendingIn(inflight)) + Cardinality(PendingIn(endGroup))
             <= CHUNK_SIZE)
    /\ [](~(inflight.active /\ endGroup.active))

-----------------------------------------------------------------------------
(* Order and percentages of the progress events (SpecBatch)                *)

\* The positions of the progress events among the events written
ProgressAt == {e \in DOMAIN events : events[e].type = "progress"}

\* C31 as stated: within a progress event the records are in the order they
\* were read, whatever order their validations settled in; the progress
\* events taken together list records in input order, none before an
\* earlier one; every progress event but the last carries five records and
\* the last one to five.
C31_InputOrder ==
    /\ \A e \in ProgressAt :
          LET rs == events[e].results
          IN  /\ Len(rs) \in 1..CHUNK_SIZE
              /\ \A i \in 1..(Len(rs) - 1) : rs[i + 1].id = rs[i].id + 1
              /\ (\E f \in ProgressAt : f > e) => Len(rs) = CHUNK_SIZE
    /\ LET ids == DeliveredIds(events)
       IN  \A i, j \in DOMAIN ids : i < j => ids[i] < ids[j]

-----------------------------------------------------------------------------
(* One connection at a time (SpecSockets)                                   *)

\* C32 as stated: whenever a connection is opened for the address, the
\* preliminary one of performSMTPCheck or the one of verifyMailbox, no socket
\* opened earlier for the address is still open, so that at most one is open
\* at any instant; and a socket serves one attempt only: every attempt
\* opens its own, and every probe comes with its own connection.
C32_OneConnectionAtATime ==
    /\ [][net'.conn # net.conn => ~net.open]_vars
    /\ [][net'.conn = net.conn \/ net'.conn = net.conn + 1]_vars
    /\ [][net'.probe # net.probe => net'.conn = net.conn + 1]_vars

-----------------------------------------------------------------------------
(* The chain of check flags (Spec)                                          *)

\* A stage later than the format stage has started
DnsStarted == net.dns > 0
MxStarted == net.mx > 0
LaterThanMxStarted == net.txt > 0 \/ net.conn > 0 \/ net.probe > 0

\* C33: at every point of a call, and so in every result returned, the check
\* flags form a chain: dns implies format, mx implies dns, smtp implies mx,
\* mailbox implies smtp, spf implies mx. A result returned by a stage that
\* failed (format, the two length caps, DNS, MX) carries that stage's reason
\* and valid = false, and no later stage was executed: no lookup of a later
\* stage was started and no connection opened.
C33_StageChain ==
    /\ Checks.dns => Checks.format
    /\ Checks.mx => Checks.dns
    /\ Checks.smtp => Checks.mx
    /\ Checks.mailbox => Checks.smtp
    /\ Checks.spf => Checks.mx
    /\ pc = "done" =>
          /\ ~Checks.format =>
                /\ result.reason = "Invalid email format"
                /\ ~result.valid
                /\ ~DnsStarted /\ ~MxStarted /\ ~LaterThanMxStarted
          /\ (Checks.format /\ ~WellFormed(email)) =>
                /\ result.reason \in {"Local part exceeds maximum length",
                                      "Domain exceeds maximum length"}
                /\ result.reason = "Local part exceeds maximum length"
                      <=> Len(LocalPartOf(email)) > MaxLocalLen
                /\ ~result.valid /\ ~Checks.dns
                /\ ~DnsStarted /\ ~MxStarted /\ ~LaterThanMxStarted
          /\ (WellFormed(email) /\ ~Checks.dns) =>
                /\ result.reason = "Domain does not exist"
                /\ ~result.valid
                /\ DnsStarted /\ ~MxStarted /\ ~LaterThanMxStarted
          /\ (Checks.dns /\ ~Checks.mx) =>
                /\ result.reason = "No mail servers found for domain"
                /\ ~result.valid
                /\ MxStarted /\ ~LaterThanMxStarted

\* C33 witness: the MX stage failed for a domain that resolves, and the call
\* returned from there.
C33_Witness ==
    /\ pc = "done"
    /\ Checks.format /\ Checks.dns /\ ~Checks.mx /\ ~Checks.spf
    /\ ~Checks.smtp /\ ~Checks.mailbox
    /\ result.reason = "No mail servers found for domain"
    /\ net.mx = 1 /\ net.txt = 0 /\ net.conn = 0

\* Number of augmented records carried by the progress events among the
\* first e events
DeliveredUpTo(e) == Len(DeliveredIds(SubSeq(events, 1, e)))

\* a/b = c/d for fractions with positive denominators
PctEq(p, q) == p.num * q.den = q.num * p.den

\* C34 as stated: the init event announces the number of input records, and
\* every progress event, the final one included, reports the records
\* delivered by the progress events up to and including it, divided by that
\* number, times 100; the final progress event so reports 100.
C34_Percentage ==
    /\ \A e \in DOMAIN events :
          events[e].type = "init" =>
              /\ events[e].totalRecords = Len(records)
              /\ totalRecords = Len(records)
    /\ \A e \in ProgressAt :
          /\ totalRecords > 0
          /\ PctEq(events[e].progress,
                   Pct(DeliveredUpTo(e) * 100, totalRecords))

====
